---- MODULE Spec2Model ----
(***************************************************************************)
(* RogueHeroes combat core: one CombatEngine session                       *)
(* (backend/app/services/combat_engine.py) driven by process_action and    *)
(* tick calls.  Units are the values of the engine's dict, kept with the   *)
(* dict's insertion order; speeds are in tenths (1.1 is 11) and ranges in  *)
(* halves (1.5 is 3), so that every comparison of the code is an exact     *)
(* integer comparison.                                                     *)
(***************************************************************************)
EXTENDS Integers, Sequences, FiniteSets, TLC

(* ------------------------------ bounds -------------------------------- *)
\* Largest column and row of the positions given to create and place_unit.
MaxX == 2
MaxY == 6
\* tick is not called once the counter has reached MaxTick.
MaxTick == 3
\* place_unit is not called once the log holds MaxLog entries.
MaxLog == 2
MaxAttack == 20
MaxDefense == 100

(* ------------------------------ schemas ------------------------------- *)
\* Optional[Position] = None; a Position has x >= 0 and y >= 0.
None == [x |-> -1, y |-> -1]

Pos(px, py) == [x |-> px, y |-> py]

Position == {Pos(px, py) : px \in 0..MaxX, py \in 0..MaxY}

\* Optional[str] = None (an empty string is as falsy as None).
NoId == ""

ACTIVE == "active"
PLAYER_WON == "player_won"
ENEMY_WON == "enemy_won"

PLACE_UNIT == "place_unit"
CAST_SPELL == "cast_spell"
USE_ABILITY == "use_ability"

ActionType == {PLACE_UNIT, CAST_SPELL, USE_ABILITY}

UnitData(id, type, name, hp, max_hp, attack, defense, speed, position, is_player) ==
    [id |-> id, type |-> type, name |-> name, hp |-> hp, max_hp |-> max_hp,
     attack |-> attack, defense |-> defense, speed |-> speed,
     position |-> position, is_player |-> is_player]

CombatAction(action_type, unit_id, target_position, spell_id, ability_id) ==
    [action_type |-> action_type, unit_id |-> unit_id,
     target_position |-> target_position, spell_id |-> spell_id,
     ability_id |-> ability_id]

(* --------------------------- state of a session ------------------------ *)
VARIABLES
    player_units,     \* the rosters given to CombatEngine(...)
    enemy_units,
    units,            \* self.units: id -> UnitData
    order,            \* the insertion order of the keys of self.units
    status,           \* self.status
    current_tick,     \* self.current_tick
    pending_actions,  \* self.pending_actions
    aliased,          \* ids of the session units whose position is still the
                      \* Position object of the caller's original unit
    call,             \* the last call: its kind, its argument, the state it found
    result,           \* what the last call returned
    kept,             \* the snapshot a caller has kept: the values it was
                      \* returned with, and the unit objects it lists
    combat_instances, \* _combat_instances: combat id -> CombatEngine
    issued,           \* every id that uuid4 has returned so far
    inflight,         \* the requests received and not yet handled, by client
    arrival,          \* _combat_instances when those requests were received
    handled           \* the requests handled since, in the order of handling

vars == <<player_units, enemy_units, units, order, status, current_tick,
          pending_actions, aliased, call, result, kept,
          combat_instances, issued, inflight, arrival, handled>>

registry_vars == <<combat_instances, issued, inflight, arrival, handled>>

engine_vars == <<player_units, enemy_units, units, order, status, current_tick,
                 pending_actions, aliased, call, result, kept>>

(* ------------------------------ helpers -------------------------------- *)
Max(a, b) == IF a >= b THEN a ELSE b

Abs(a) == IF a >= 0 THEN a ELSE -a

SeqToSet(s) == {s[i] : i \in 1..Len(s)}

\* [u for u in seq if Keep(u)]: the ids of `ids` whose unit satisfies Keep.
Living(us, ids, side) ==
    SelectSeq(ids, LAMBDA id : us[id].is_player = side /\ us[id].hp > 0)

(* ------------------------- CombatEngine.__init__ ----------------------- *)
\* The keys of a dict filled from `roster` in order: a repeated id keeps the
\* place of its first insertion.
RECURSIVE KeyOrder(_, _)
KeyOrder(roster, seen) ==
    IF roster = <<>> THEN seen
    ELSE KeyOrder(Tail(roster),
                  IF Head(roster).id \in SeqToSet(seen) THEN seen
                  ELSE Append(seen, Head(roster).id))

\* The value a dict filled from `roster` in order holds for `id`: the last
\* unit of the roster with that id (model_copy() copies the fields).
LastWithId(roster, id) ==
    LET last == CHOOSE i \in 1..Len(roster) :
                    /\ roster[i].id = id
                    /\ \A j \in (i+1)..Len(roster) : roster[j].id # id
    IN  roster[last]

\* A constructor that already declares the winner when a roster is empty.
NewEngineJudged(pu, eu) ==
    LET all  == pu \o eu
        keys == KeyOrder(all, <<>>)
    IN  [units           |-> [id \in SeqToSet(keys) |-> LastWithId(all, id)],
         order           |-> keys,
         status          |-> IF eu = <<>> THEN PLAYER_WON
                             ELSE IF pu = <<>> THEN ENEMY_WON ELSE ACTIVE,
         current_tick    |-> 0,
         pending_actions |-> <<>>]

\* A constructor that keeps the first unit given with an id, as setdefault
\* would.
NewEngineFirstKept(pu, eu) ==
    LET all  == pu \o eu
        keys == KeyOrder(all, <<>>)
    IN  [units           |-> [id \in SeqToSet(keys) |->
                                 all[CHOOSE i \in 1..Len(all) :
                                         /\ all[i].id = id
                                         /\ \A j \in 1..(i - 1) : all[j].id # id]],
         order           |-> keys,
         status          |-> ACTIVE,
         current_tick    |-> 0,
         pending_actions |-> <<>>]

\* self after CombatEngine(combat_id, pu, eu).
NewEngine(pu, eu) ==
    LET all  == pu \o eu
        keys == KeyOrder(all, <<>>)
    IN  [units           |-> [id \in SeqToSet(keys) |-> LastWithId(all, id)],
         order           |-> keys,
         status          |-> ACTIVE,
         current_tick    |-> 0,
         pending_actions |-> <<>>]

(* -------------------------- CombatEngine.get_state --------------------- *)
get_state(self) ==
    [status          |-> self.status,
     tick            |-> self.current_tick,
     units           |-> [i \in 1..Len(self.order) |-> self.units[self.order[i]]],
     pending_actions |-> self.pending_actions]

CombatActionResponse(success, message, state) ==
    [success |-> success, message |-> message, state |-> state]

\* A handler's return without any change of self.
Reject(self, message) ==
    [self |-> self, response |-> CombatActionResponse(FALSE, message, get_state(self))]

(* ---------------------- CombatEngine._handle_place_unit ---------------- *)
\* Last row of the player's deployment zone, as the handler tests it.
PlayerZoneMaxY == 3

\* A zone check that stops one row early (rows 0-2).
OutsidePlayerZoneFromMax(target_position) == target_position.y >= PlayerZoneMaxY

OutsidePlayerZone(target_position) == target_position.y > PlayerZoneMaxY

\* An occupancy check that takes a defeated unit's tile for free.
OccupiedByLiving(us, id, px, py) ==
    \E o \in DOMAIN us :
        /\ us[o].position # None
        /\ us[o].hp > 0
        /\ us[o].id # id
        /\ us[o].position.x = px
        /\ us[o].position.y = py

\* The loops of _handle_place_unit and _move_toward: some other unit that
\* has a position has exactly this one.
Occupied(us, id, px, py) ==
    \E o \in DOMAIN us :
        /\ us[o].position # None
        /\ us[o].id # id
        /\ us[o].position.x = px
        /\ us[o].position.y = py

\* not action.unit_id or not action.target_position
MissingField(action) == action.unit_id = NoId \/ action.target_position = None

\* An ownership check that lets every unit through.
EnemyOwnedUnchecked(unit) == FALSE

EnemyOwned(unit) == ~unit.is_player

PlacedEntry(unit) == "Placed " \o unit.name

PlacedMessage(unit, target_position) ==
    "Placed " \o unit.name \o " at (" \o ToString(target_position.x) \o ", "
        \o ToString(target_position.y) \o ")"

\* A placement that puts its entry at the head of the log.
PlaceCommitLogFirst(self, id, target_position) ==
    [self EXCEPT !.units[id].position = target_position,
                 !.pending_actions = <<PlacedEntry(self.units[id])>> \o @]

PlaceCommit(self, id, target_position) ==
    [self EXCEPT !.units[id].position = target_position,
                 !.pending_actions = Append(@, PlacedEntry(self.units[id]))]

\* A handler that moves the unit before it looks whether the tile is free.
handle_place_unit_commit_first(self, action) ==
    IF MissingField(action)
    THEN Reject(self, "Unit ID and target position required")
    ELSE IF action.unit_id \notin DOMAIN self.units
    THEN Reject(self, "Unit not found")
    ELSE LET unit == self.units[action.unit_id]
             new  == PlaceCommit(self, unit.id, action.target_position)
         IN
    IF EnemyOwned(unit)
    THEN Reject(self, "Cannot place enemy units")
    ELSE IF OutsidePlayerZone(action.target_position)
    THEN Reject(self, "Cannot deploy outside player zone")
    ELSE IF Occupied(self.units, unit.id, action.target_position.x,
                     action.target_position.y)
    THEN Reject([self EXCEPT !.units = new.units], "Position already occupied")
    ELSE [self     |-> new,
          response |-> CombatActionResponse(TRUE,
                           PlacedMessage(unit, action.target_position),
                           get_state(new))]

\* A handler that looks at the target's row before it looks whose unit it is.
handle_place_unit_zone_first(self, action) ==
    IF MissingField(action)
    THEN Reject(self, "Unit ID and target position required")
    ELSE IF action.unit_id \notin DOMAIN self.units
    THEN Reject(self, "Unit not found")
    ELSE LET unit == self.units[action.unit_id] IN
    IF OutsidePlayerZone(action.target_position)
    THEN Reject(self, "Cannot deploy outside player zone")
    ELSE IF EnemyOwned(unit)
    THEN Reject(self, "Cannot place enemy units")
    ELSE IF Occupied(self.units, unit.id, action.target_position.x,
                     action.target_position.y)
    THEN Reject(self, "Position already occupied")
    ELSE LET new == PlaceCommit(self, unit.id, action.target_position)
         IN  [self     |-> new,
              response |-> CombatActionResponse(TRUE,
                               PlacedMessage(unit, action.target_position),
                               get_state(new))]

\* A handler that places a unit once: a unit that has a position stays there.
handle_place_unit_once(self, action) ==
    IF MissingField(action)
    THEN Reject(self, "Unit ID and target position required")
    ELSE IF action.unit_id \notin DOMAIN self.units
    THEN Reject(self, "Unit not found")
    ELSE LET unit == self.units[action.unit_id] IN
    IF EnemyOwned(unit)
    THEN Reject(self, "Cannot place enemy units")
    ELSE IF OutsidePlayerZone(action.target_position)
    THEN Reject(self, "Cannot deploy outside player zone")
    ELSE IF \/ unit.position # None
            \/ Occupied(self.units, unit.id, action.target_position.x,
                        action.target_position.y)
    THEN Reject(self, "Position already occupied")
    ELSE LET new == PlaceCommit(self, unit.id, action.target_position)
         IN  [self     |-> new,
              response |-> CombatActionResponse(TRUE,
                               PlacedMessage(unit, action.target_position),
                               get_state(new))]

handle_place_unit(self, action) ==
    IF MissingField(action)
    THEN Reject(self, "Unit ID and target position required")
    ELSE IF action.unit_id \notin DOMAIN self.units
    THEN Reject(self, "Unit not found")
    ELSE LET unit == self.units[action.unit_id] IN
    IF EnemyOwned(unit)
    THEN Reject(self, "Cannot place enemy units")
    ELSE IF OutsidePlayerZone(action.target_position)
    THEN Reject(self, "Cannot deploy outside player zone")
    ELSE IF Occupied(self.units, unit.id, action.target_position.x,
                     action.target_position.y)
    THEN Reject(self, "Position already occupied")
    ELSE LET new == PlaceCommit(self, unit.id, action.target_position)
         IN  [self     |-> new,
              response |-> CombatActionResponse(TRUE,
                               PlacedMessage(unit, action.target_position),
                               get_state(new))]

\* A spell handler that already queues the cast for the next tick.
handle_cast_spell_queued(self, action) ==
    [self     |-> [self EXCEPT !.pending_actions = Append(@, "Cast " \o action.spell_id)],
     response |-> CombatActionResponse(FALSE, "Spell system not yet implemented",
                                       get_state(self))]

handle_cast_spell(self, action) == Reject(self, "Spell system not yet implemented")

handle_use_ability(self, action) == Reject(self, "Ability system not yet implemented")

(* ------------------------ CombatEngine.process_action ------------------ *)
\* A guard that knows only one of the two terminal values.
EndedOnlyPlayerWon(self) == self.status = PLAYER_WON

Ended(self) == self.status # ACTIVE

process_action(self, action) ==
    IF Ended(self) THEN Reject(self, "Combat has ended")
    ELSE IF action.action_type = PLACE_UNIT THEN handle_place_unit(self, action)
    ELSE IF action.action_type = CAST_SPELL THEN handle_cast_spell(self, action)
    ELSE IF action.action_type = USE_ABILITY THEN handle_use_ability(self, action)
    ELSE Reject(self, "Unknown action type")

(* ------------------------- damage and distance ------------------------- *)
\* attack - defense // 2, at least 1 (// is floor division; defense >= 0).
\* Damage without the floor of one.
calculate_damage_unfloored(attacker, defender) ==
    attacker.attack - (defender.defense \div 2)

calculate_damage(attacker, defender) ==
    Max(1, attacker.attack - (defender.defense \div 2))

\* calculate_distance returns sqrt(DistSq); sqrt is strictly increasing and
\* exact enough on these small integers, so distances compare as their squares.
DistSq(pos1, pos2) ==
    (pos1.x - pos2.x) * (pos1.x - pos2.x) + (pos1.y - pos2.y) * (pos1.y - pos2.y)

\* Twice the attack range of the tick loop: 1.5, and 5.0 for an archer.
MeleeRange2 == 3
ArcherRange2 == 10

\* The ranges of ATTACK_RANGES (src/shared/constants.py), which gives a mage
\* 4.0 and a healer 3.0; the engine does not read that table.
attack_range2_by_type(unit) ==
    IF unit.type = "archer" THEN ArcherRange2
    ELSE IF unit.type = "mage" THEN 8
    ELSE IF unit.type = "healer" THEN 6
    ELSE MeleeRange2

attack_range2(unit) == IF unit.type # "archer" THEN MeleeRange2 ELSE ArcherRange2

\* A range test that fails for every target, however near.
InRangeNever(unit, target) == FALSE

\* distance <= attack_range, i.e. sqrt(d2) <= r2 / 2.
InRange(unit, target) ==
    4 * DistSq(unit.position, target.position) <= attack_range2(unit) * attack_range2(unit)

(* --------------------- CombatEngine._find_nearest_enemy ---------------- *)
NoUnit == "<none>"

\* The loop over `enemies` from index i with the best candidate so far
\* (`nearest`, NoUnit for None with min_distance = inf).
RECURSIVE NearestFrom(_, _, _, _, _)
NearestFrom(us, id, enemies, i, nearest) ==
    IF i > Len(enemies) THEN nearest
    ELSE LET enemy == us[enemies[i]] IN
         IF enemy.hp <= 0 \/ enemy.position = None
         THEN NearestFrom(us, id, enemies, i + 1, nearest)
         ELSE IF \/ nearest = NoUnit
                 \/ DistSq(us[id].position, enemy.position)
                      < DistSq(us[id].position, us[nearest].position)
         THEN NearestFrom(us, id, enemies, i + 1, enemies[i])
         ELSE NearestFrom(us, id, enemies, i + 1, nearest)

Reversed(list) == [i \in 1..Len(list) |-> list[Len(list) + 1 - i]]

\* A search whose scan order, and with it the winner among equally near
\* enemies, depends on how many requests the process has handled.
find_nearest_enemy_unordered(us, id, enemies) ==
    IF us[id].position = None THEN NoUnit
    ELSE NearestFrom(us, id,
                     IF Len(handled) % 2 = 0 THEN enemies ELSE Reversed(enemies),
                     1, NoUnit)

\* A search that keeps the last of several equally near enemies.
find_nearest_enemy_last(us, id, enemies) ==
    IF us[id].position = None THEN NoUnit
    ELSE NearestFrom(us, id, Reversed(enemies), 1, NoUnit)

find_nearest_enemy(us, id, enemies) ==
    IF us[id].position = None THEN NoUnit
    ELSE NearestFrom(us, id, enemies, 1, NoUnit)

(* ------------------------ CombatEngine._move_toward -------------------- *)
\* A step that prefers the x axis when both axes are equally far.
StepTowardXFirst(position, target) ==
    LET dx == target.x - position.x
        dy == target.y - position.y
    IN  IF Abs(dx) >= Abs(dy)
        THEN Pos(position.x + (IF dx > 0 THEN 1 ELSE -1), position.y)
        ELSE Pos(position.x, position.y + (IF dy > 0 THEN 1 ELSE -1))

\* The tile one step toward `target` along the dominant axis.
StepToward(position, target) ==
    LET dx == target.x - position.x
        dy == target.y - position.y
    IN  IF Abs(dx) > Abs(dy)
        THEN Pos(position.x + (IF dx > 0 THEN 1 ELSE -1), position.y)
        ELSE Pos(position.x, position.y + (IF dy > 0 THEN 1 ELSE -1))

\* A move that does not look whether the tile is taken.
move_toward_unchecked(us, id, target) ==
    IF us[id].position = None THEN us
    ELSE [us EXCEPT ![id].position = StepToward(us[id].position, target)]

move_toward(us, id, target) ==
    IF us[id].position = None THEN us
    ELSE LET new == StepToward(us[id].position, target) IN
         IF Occupied(us, us[id].id, new.x, new.y) THEN us
         ELSE [us EXCEPT ![id].position = new]

(* ---------------------------- CombatEngine.tick ------------------------ *)
\* A sort that lets the slowest unit act first.
SortedBySlowness(us, ord) ==
    LET n == Len(ord)
        Before(i, j) == \/ us[ord[i]].speed < us[ord[j]].speed
                        \/ us[ord[i]].speed = us[ord[j]].speed /\ i < j
        Rank(i) == 1 + Cardinality({j \in 1..n : Before(j, i)})
    IN  [k \in 1..n |-> ord[CHOOSE i \in 1..n : Rank(i) = k]]

\* A sort that turns the order of units of equal speed around.
SortedBySpeedUnstable(us, ord) ==
    LET n == Len(ord)
        Before(i, j) == \/ us[ord[i]].speed > us[ord[j]].speed
                        \/ us[ord[i]].speed = us[ord[j]].speed /\ i > j
        Rank(i) == 1 + Cardinality({j \in 1..n : Before(j, i)})
    IN  [k \in 1..n |-> ord[CHOOSE i \in 1..n : Rank(i) = k]]

\* sorted(self.units.values(), key=lambda u: -u.speed): a stable sort, so
\* units of equal speed keep the dict's order.
SortedBySpeed(us, ord) ==
    LET n == Len(ord)
        Before(i, j) == \/ us[ord[i]].speed > us[ord[j]].speed
                        \/ us[ord[i]].speed = us[ord[j]].speed /\ i < j
        Rank(i) == 1 + Cardinality({j \in 1..n : Before(j, i)})
    IN  [k \in 1..n |-> ord[CHOOSE i \in 1..n : Rank(i) = k]]

\* An attack that also wears the target's armour down.
AttackWearsArmour(us, id, target) ==
    [us EXCEPT ![target].hp = Max(0, @ - calculate_damage(us[id], us[target])),
               ![target].defense = Max(0, @ - 1)]

\* An attack that does not stop at zero hit points.
AttackUnfloored(us, id, target) ==
    [us EXCEPT ![target].hp = @ - calculate_damage(us[id], us[target])]

Attack(us, id, target) ==
    [us EXCEPT ![target].hp = Max(0, @ - calculate_damage(us[id], us[target]))]

\* A loop body that lets a unit without hit points take its turn.
UnitTurnOfTheDead(us, id, players, enemies) ==
    IF us[id].position = None THEN us
    ELSE LET target == find_nearest_enemy(us, id,
                           IF us[id].is_player THEN enemies ELSE players)
         IN  IF target = NoUnit \/ us[target].position = None THEN us
             ELSE IF InRange(us[id], us[target]) THEN Attack(us, id, target)
             ELSE move_toward(us, id, us[target].position)

\* One pass of the loop body for unit `id`; players and enemies are the lists
\* of the units that were alive when the tick began.
UnitTurn(us, id, players, enemies) ==
    IF us[id].hp <= 0 \/ us[id].position = None THEN us
    ELSE LET target == find_nearest_enemy(us, id,
                           IF us[id].is_player THEN enemies ELSE players)
         IN  IF target = NoUnit \/ us[target].position = None THEN us
             ELSE IF InRange(us[id], us[target]) THEN Attack(us, id, target)
             ELSE move_toward(us, id, us[target].position)

RECURSIVE UnitLoop(_, _, _, _, _)
UnitLoop(us, turn, i, players, enemies) ==
    IF i > Len(turn) THEN us
    ELSE UnitLoop(UnitTurn(us, turn[i], players, enemies), turn, i + 1,
                  players, enemies)

\* A tick that does not look at the units again once they have acted.
StatusKept(us, ord, old) == old

\* The recheck of the win conditions after the loop.
StatusAfter(us, ord, old) ==
    IF Living(us, ord, FALSE) = <<>> THEN PLAYER_WON
    ELSE IF Living(us, ord, TRUE) = <<>> THEN ENEMY_WON
    ELSE old

\* A tick body that looks for living player units before living enemy units.
tick_active_players_first(self) ==
    LET counted == [self EXCEPT !.current_tick = @ + 1]
        players == Living(self.units, self.order, TRUE)
        enemies == Living(self.units, self.order, FALSE)
    IN  IF players = <<>> THEN [counted EXCEPT !.status = ENEMY_WON]
        ELSE IF enemies = <<>> THEN [counted EXCEPT !.status = PLAYER_WON]
        ELSE LET us == UnitLoop(self.units,
                                SortedBySpeed(self.units, self.order), 1,
                                players, enemies)
             IN  [counted EXCEPT !.units = us,
                                 !.pending_actions = <<>>,
                                 !.status = StatusAfter(us, self.order, @)]

\* The body of tick on an ACTIVE session: count, check, let the units act,
\* clear the log, check again.
tick_active(self) ==
    LET counted == [self EXCEPT !.current_tick = @ + 1]
        players == Living(self.units, self.order, TRUE)
        enemies == Living(self.units, self.order, FALSE)
    IN  IF enemies = <<>> THEN [counted EXCEPT !.status = PLAYER_WON]
        ELSE IF players = <<>> THEN [counted EXCEPT !.status = ENEMY_WON]
        ELSE LET us == UnitLoop(self.units,
                                SortedBySpeed(self.units, self.order), 1,
                                players, enemies)
             IN  [counted EXCEPT !.units = us,
                                 !.pending_actions = <<>>,
                                 !.status = StatusAfter(us, self.order, @)]

\* A tick that takes an ended combat up again instead of leaving it alone.
tick_reopen(self) ==
    IF Ended(self) THEN [self EXCEPT !.status = ACTIVE] ELSE tick_active(self)

\* A tick that counts itself only once the win conditions have been checked.
tick_count_late(self) ==
    IF Ended(self) THEN self
    ELSE IF Living(self.units, self.order, FALSE) = <<>>
    THEN [self EXCEPT !.status = PLAYER_WON]
    ELSE IF Living(self.units, self.order, TRUE) = <<>>
    THEN [self EXCEPT !.status = ENEMY_WON]
    ELSE tick_active(self)

tick(self) == IF Ended(self) THEN self ELSE tick_active(self)

(* ------------------------------ the inputs ----------------------------- *)
Warrior(hp, position) ==
    UnitData("p1", "warrior", "Warrior", hp, 3, 2, 2, 10, position, TRUE)

Archer(hp, position) ==
    UnitData("p2", "archer", "Archer", hp, 2, 3, 0, 12, position, TRUE)

Goblin(hp, position) ==
    UnitData("e1", "warrior", "Goblin", hp, 3, 2, 1, 11, position, FALSE)

\* The rosters given to create: nobody, the warrior alone, or the warrior
\* with the archer behind him, against nobody or the goblin.  A unit starts
\* undeployed or on one of a few tiles (two units may be given the same tile)
\* and may start with no hit points left.
PlayerRosters ==
    {<<>>}
    \cup {<<Warrior(hp, p)>> : hp \in {0, 1, 3}, p \in {None, Pos(0, 0)}}
    \cup {<<Warrior(3, p), Archer(hp, q)>> :
              p \in {None, Pos(0, 0)}, hp \in {0, 2}, q \in {None, Pos(0, 0)}}

EnemyRosters ==
    {<<>>}
    \cup {<<Goblin(hp, p)>> : hp \in {0, 3}, p \in {None, Pos(MaxX, 1), Pos(0, MaxY)}}

\* The tiles an action may name for either player unit: the two where
\* rosters put player units, the last row of the player's zone and the first
\* row beyond it.
Targets ==
    {Pos(0, 0), Pos(MaxX, 1), Pos(1, PlayerZoneMaxY), Pos(1, PlayerZoneMaxY + 1)}

\* The actions submitted: place_unit of each player unit on each target and
\* of the warrior on the far row, of the enemy unit and of an unknown unit on
\* a tile inside and a tile outside the zone, place_unit with a field
\* missing, a spell cast on a free tile and an ability used.
PlaceUnit(id, p) == CombatAction(PLACE_UNIT, id, p, NoId, NoId)

Actions ==
    {PlaceUnit(id, p) : id \in {"p1", "p2"}, p \in Targets}
    \cup {PlaceUnit("p1", Pos(0, MaxY))}
    \cup {PlaceUnit(id, p) :
              id \in {"e1", "zz"}, p \in {Pos(0, 0), Pos(1, PlayerZoneMaxY + 1)}}
    \cup {PlaceUnit(NoId, Pos(0, 0)), PlaceUnit("p1", None)}
    \cup {CombatAction(CAST_SPELL, "p1", Pos(0, 0), "fireball", NoId),
          CombatAction(USE_ABILITY, "p1", None, NoId, "charge")}

NoAction == CombatAction("", NoId, None, NoId, NoId)

\* model_copy() copies the fields of a unit and not the objects they refer
\* to: the position of a copy is the Position object of the original.
model_copy(us) == {id \in DOMAIN us : us[id].position # None}

\* The units that an operation gave a new Position object: the unit a
\* successful place_unit assigned, and every unit that moved.
Rebound(before, after, placed) ==
    placed \cup {id \in DOMAIN before : after[id].position # before[id].position}

\* The registry of a process that has not served a request.
NoInstances == [combat_id \in {} |-> NoId]

NoRequests == [client \in {} |-> NoId]

\* No snapshot has been kept.
NoSnapshot == [returned |-> NoId, units |-> <<>>]

\* An engine that is used on its own is in no registry.
Unregistered ==
    /\ combat_instances = NoInstances
    /\ issued = {}
    /\ inflight = NoRequests
    /\ arrival = NoInstances
    /\ handled = <<>>

Called(op, action, found) == [op |-> op, action |-> action, found |-> found]

(* --------------------------- the state machine ------------------------- *)
self == [units |-> units, order |-> order, status |-> status,
         current_tick |-> current_tick, pending_actions |-> pending_actions]

Becomes(new) ==
    /\ units' = new.units
    /\ order' = new.order
    /\ status' = new.status
    /\ current_tick' = new.current_tick
    /\ pending_actions' = new.pending_actions

Init ==
    \E pu \in PlayerRosters, eu \in EnemyRosters :
        LET new == NewEngine(pu, eu) IN
        /\ player_units = pu
        /\ enemy_units = eu
        /\ units = new.units
        /\ order = new.order
        /\ status = new.status
        /\ current_tick = new.current_tick
        /\ pending_actions = new.pending_actions
        /\ aliased = model_copy(new.units)
        /\ kept = NoSnapshot
        /\ call = Called("create", NoAction, get_state(new))
        /\ result = CombatActionResponse(TRUE, "", get_state(new))
        /\ Unregistered

\* engine.process_action(action), as submit_action calls it
Submit(action) ==
    \E out \in {process_action(self, action)} :
        /\ Len(out.self.pending_actions) <= MaxLog
        /\ Becomes(out.self)
        /\ call' = Called("process_action", action, get_state(self))
        /\ result' = out.response
        /\ aliased' = aliased \ Rebound(units, units',
                                       IF result'.success THEN {action.unit_id} ELSE {})
        /\ UNCHANGED <<player_units, enemy_units, kept>>
        /\ UNCHANGED registry_vars

ProcessAction == \E action \in Actions : Submit(action)

\* engine.tick(), then engine.get_state() as run_tick returns it
Tick ==
    /\ Ended(self) \/ current_tick < MaxTick
    /\ \E new \in {tick(self)} :
       /\ Becomes(new)
       /\ aliased' = aliased \ Rebound(units, units', {})
       /\ call' = Called("tick", NoAction, get_state(self))
       /\ result' = CombatActionResponse(TRUE, "", get_state(new))
    /\ UNCHANGED <<player_units, enemy_units, kept>>
    /\ UNCHANGED registry_vars

Next == ProcessAction \/ Tick

Spec == Init /\ [][Next]_vars

(* ------------------------ reading the last call ------------------------ *)
\* The units of a snapshot by id.
UnitsOf(state) ==
    [id \in {state.units[i].id : i \in DOMAIN state.units} |->
        state.units[CHOOSE i \in DOMAIN state.units : state.units[i].id = id]]

Terminal(s) == s \in {PLAYER_WON, ENEMY_WON}

IsTick == call.op = "tick"

IsAction == call.op = "process_action"

IsPlace == IsAction /\ call.action.action_type = PLACE_UNIT

\* The last call found the session exactly as it is now.
SessionUntouched == get_state(self) = call.found

(* --------------------------------- C1 ---------------------------------- *)
\* C1: once the status is PLAYER_WON or ENEMY_WON, every tick and every
\* process_action leaves it at that same value; by induction it keeps the
\* value over any sequence of calls.
C1_StatusAbsorbing ==
    Terminal(call.found.status) => status = call.found.status

C1_Witness ==
    /\ IsTick
    /\ call.found.status = ENEMY_WON
    /\ status = ENEMY_WON

(* --------------------------------- C2 ---------------------------------- *)
\* C2: on a session that is not ACTIVE a tick and an action of any kind change
\* no unit, not the status, not the tick counter and not the log, and the
\* action is answered success=false, "Combat has ended".
C2_EndedSessionFrozen ==
    call.found.status # ACTIVE =>
        /\ SessionUntouched
        /\ IsAction => /\ result.success = FALSE
                       /\ result.message = "Combat has ended"
                       /\ result.state = call.found

\* A placement that an ACTIVE session would accept, answered by an ended one.
C2_Witness ==
    /\ IsPlace
    /\ call.found.status = ENEMY_WON
    /\ call.action.unit_id = "p1"
    /\ call.action.target_position = Pos(0, 0)
    /\ ~Occupied(units, "p1", 0, 0)
    /\ result.message = "Combat has ended"

(* --------------------------------- C3 ---------------------------------- *)
\* C3: a process_action that returns success=false has changed nothing of
\* the session, and the snapshot it returns is the state before the call.
C3_FailureChangesNothing ==
    IsAction /\ result.success = FALSE =>
        /\ SessionUntouched
        /\ result.state = call.found

C3_Witness ==
    /\ IsPlace
    /\ result.success = FALSE
    /\ result.message = "Position already occupied"
    /\ call.found.status = ACTIVE

(* --------------------------------- C4 ---------------------------------- *)
\* C4: the tick counter is 0 after create, a tick on an ACTIVE session adds
\* exactly 1 (also when it only detects a victory), no call lowers it and
\* process_action leaves it alone.
C4_TickCounter ==
    /\ call.op = "create" => current_tick = 0
    /\ IsTick /\ call.found.status = ACTIVE => current_tick = call.found.tick + 1
    /\ current_tick >= call.found.tick
    /\ IsAction => current_tick = call.found.tick
    /\ result.state.tick = current_tick

\* A tick that found no living enemy and ended the combat before any turn.
C4_Witness ==
    /\ IsTick
    /\ call.found.status = ACTIVE
    /\ \A i \in DOMAIN call.found.units :
           call.found.units[i].is_player \/ call.found.units[i].hp = 0
    /\ \E i \in DOMAIN call.found.units : call.found.units[i].hp > 0
    /\ current_tick = 1
    /\ status = PLAYER_WON

(* --------------------------------- C5 ---------------------------------- *)
\* C5: after every tick made while the status is ACTIVE the action log is
\* empty, and so is the log of the snapshot returned for that tick.
C5_LogClearedEveryTick ==
    IsTick /\ call.found.status = ACTIVE =>
        /\ pending_actions = <<>>
        /\ result.state.pending_actions = <<>>

(* --------------------------------- C6 ---------------------------------- *)
NoSharedTile(us) ==
    \A a, b \in DOMAIN us :
        a # b /\ us[a].position # None => us[a].position # us[b].position

\* C6: when create was given every deployed unit on a tile of its own, no two
\* units, living or dead, ever have the same position.
C6_OneUnitPerTile ==
    NoSharedTile(NewEngine(player_units, enemy_units).units) => NoSharedTile(units)

Deployed(us) == {id \in DOMAIN us : us[id].position # None}

\* How far a unit's position is from the one the last call found.
Moved(id) ==
    LET was == UnitsOf(call.found)[id].position
        now == units[id].position
    IN  Abs(now.x - was.x) + Abs(now.y - was.y)

\* A tick with three units on the board, one of them defeated, in which a
\* unit moved and the combat went on.
C6_Witness ==
    /\ NoSharedTile(NewEngine(player_units, enemy_units).units)
    /\ IsTick
    /\ Cardinality(Deployed(units)) = 3
    /\ Deployed(UnitsOf(call.found)) = Deployed(units)
    /\ \E id \in DOMAIN units : Moved(id) = 1
    /\ \E id \in DOMAIN units : units[id].hp = 0
    /\ status = ACTIVE

(* --------------------------------- C7 ---------------------------------- *)
ZoneViolation == "Cannot deploy outside player zone"

\* The place_unit of the last call names a player-owned unit of the session
\* and a target, and came to an ACTIVE session: it reaches the zone check.
PlaceOfPlayerUnit ==
    /\ IsPlace
    /\ call.found.status = ACTIVE
    /\ ~MissingField(call.action)
    /\ call.action.unit_id \in DOMAIN units
    /\ units[call.action.unit_id].is_player

OthersOnTarget(id) ==
    {o \in DOMAIN units \ {id} :
        UnitsOf(call.found)[o].position = call.action.target_position}

\* C8: a place_unit fails whenever a unit other than the one placed has the
\* target position, alive or not, of either side, and as a conflict when the
\* call reaches the occupancy check; a unit placed on its own tile is none.
C8_OccupiedTile ==
    /\ IsPlace /\ call.action.target_position # None
          /\ OthersOnTarget(call.action.unit_id) # {}
           => result.success = FALSE
    /\ PlaceOfPlayerUnit /\ call.action.target_position.y <= 3 =>
           IF OthersOnTarget(call.action.unit_id) # {}
           THEN result.message = "Position already occupied"
           ELSE result.success = TRUE

\* A placement refused because of a defeated enemy unit on the target.
C8_Witness ==
    /\ PlaceOfPlayerUnit
    /\ result.message = "Position already occupied"
    /\ \E o \in OthersOnTarget(call.action.unit_id) :
           units[o].hp = 0 /\ ~units[o].is_player

\* A unit placed again on the tile it has.
C8_WitnessSameTile ==
    /\ PlaceOfPlayerUnit
    /\ UnitsOf(call.found)[call.action.unit_id].position = call.action.target_position
    /\ result.success = TRUE

(* --------------------------------- C9 ---------------------------------- *)
\* C9: a place_unit that names an enemy-owned unit fails, with "Cannot place
\* enemy units" when it reaches the lookup, one that names an id the session
\* does not have fails, with "Unit not found"; no process_action changes the
\* position of an enemy-owned unit.
C9_EnemyAndUnknownUnits ==
    /\ IsPlace /\ call.action.unit_id \in DOMAIN units
          /\ ~units[call.action.unit_id].is_player
           => /\ result.success = FALSE
              /\ call.found.status = ACTIVE /\ ~MissingField(call.action)
                     => result.message = "Cannot place enemy units"
    /\ IsPlace /\ call.action.unit_id \notin DOMAIN units
           => /\ result.success = FALSE
              /\ call.found.status = ACTIVE /\ ~MissingField(call.action)
                     => result.message = "Unit not found"
    /\ IsAction =>
           \A id \in DOMAIN units :
               ~units[id].is_player
                   => units[id].position = UnitsOf(call.found)[id].position

\* The enemy unit named for a free tile of the player's zone.
C9_Witness ==
    /\ IsPlace
    /\ call.action.unit_id = "e1"
    /\ "e1" \in DOMAIN units
    /\ call.action.target_position = Pos(0, 0)
    /\ ~Occupied(units, "e1", 0, 0)
    /\ result.message = "Cannot place enemy units"

(* --------------------------------- C10 --------------------------------- *)
\* C10: a successful place_unit sets the unit's position to the target, puts
\* "Placed <name>" at the end of the log, returns the new state, and changes
\* no other unit, no hit points, not the status and not the tick counter.
C10_PlaceEffect ==
    IsPlace /\ result.success = TRUE =>
        LET id  == call.action.unit_id
            was == UnitsOf(call.found)
        IN  /\ units[id].position = call.action.target_position
            /\ units[id] = [was[id] EXCEPT !.position = call.action.target_position]
            /\ \A o \in DOMAIN units \ {id} : units[o] = was[o]
            /\ pending_actions =
                   Append(call.found.pending_actions, "Placed " \o units[id].name)
            /\ status = call.found.status
            /\ current_tick = call.found.tick
            /\ result.state = get_state(self)

\* A deployed unit moved to another tile, with an entry already in the log.
C10_Witness ==
    /\ IsPlace
    /\ result.success = TRUE
    /\ Len(call.found.pending_actions) = 1
    /\ call.found.pending_actions # <<"Placed " \o units[call.action.unit_id].name>>
    /\ UnitsOf(call.found)[call.action.unit_id].position
           \notin {None, call.action.target_position}
    /\ Cardinality(DOMAIN units) = 3

(* --------------------------------- C11 --------------------------------- *)
\* cast_spell and use_ability actions with every combination of a unit id
\* (player's, enemy's, unknown, none), a target (none, inside the zone,
\* outside it), a spell id and an ability id.
PlaceholderActions ==
    {CombatAction(t, id, p, sp, NoId) :
        t \in {CAST_SPELL, USE_ABILITY}, id \in {"p1", "e1", "zz", NoId},
        p \in {None, Pos(1, PlayerZoneMaxY + 1)}, sp \in {NoId, "fireball"}}
    \cup {CombatAction(t, "p1", Pos(0, 0), NoId, "charge") :
              t \in {CAST_SPELL, USE_ABILITY}}

NotImplemented(action_type) ==
    IF action_type = CAST_SPELL THEN "Spell system not yet implemented"
    ELSE "Ability system not yet implemented"

\* C11: on an ACTIVE session a cast_spell or use_ability action, whatever its
\* unit id, target, spell id and ability id, returns success=false with the
\* not-implemented message of its kind and changes nothing of the session.
\* (The second conjunct tries every combination on the state a cast found;
\* a cast is made in every ACTIVE state.)
C11_PlaceholdersNotImplemented ==
    /\ IsAction /\ call.found.status = ACTIVE
          /\ call.action.action_type \in {CAST_SPELL, USE_ABILITY}
           => /\ result.success = FALSE
              /\ result.message = NotImplemented(call.action.action_type)
              /\ result.state = call.found
              /\ SessionUntouched
    /\ IsAction /\ call.found.status = ACTIVE /\ call.action.action_type = CAST_SPELL =>
           \A a \in PlaceholderActions :
               LET out == process_action(self, a) IN
               /\ out.self = self
               /\ out.response.success = FALSE
               /\ out.response.message = NotImplemented(a.action_type)
               /\ out.response.state = get_state(self)

\* A spell cast on a free tile of the zone by a living unit, with a placement
\* waiting in the log.
C11_Witness ==
    /\ IsAction
    /\ call.action.action_type = CAST_SPELL
    /\ call.action.spell_id = "fireball"
    /\ call.found.status = ACTIVE
    /\ "p1" \in DOMAIN units
    /\ units["p1"].hp > 0
    /\ ~Occupied(units, "p1", 0, 0)
    /\ pending_actions # <<>>
    /\ result.success = FALSE

(* --------------------------------- C13 --------------------------------- *)
DistinctIds(roster) ==
    \A i, j \in 1..Len(roster) : i # j => roster[i].id # roster[j].id

\* C13: a newly created session is ACTIVE with tick counter 0 and an empty
\* log, and its unit list holds every unit of both rosters (exactly the
\* player roster followed by the enemy roster when all ids are distinct);
\* create sets no terminal status, not even for an empty roster.
C13_NewSession ==
    call.op = "create" =>
        /\ status = ACTIVE
        /\ current_tick = 0
        /\ pending_actions = <<>>
        /\ result.state = get_state(self)
        /\ result.state.status = ACTIVE
        /\ \A i \in 1..Len(player_units \o enemy_units) :
               \E k \in DOMAIN result.state.units :
                   result.state.units[k].id = (player_units \o enemy_units)[i].id
        /\ DistinctIds(player_units \o enemy_units) =>
               /\ Len(result.state.units) = Len(player_units) + Len(enemy_units)
               /\ result.state.units = player_units \o enemy_units

\* A session created with players and no enemy at all.
C13_Witness ==
    /\ call.op = "create"
    /\ enemy_units = <<>>
    /\ Len(player_units) = 2
    /\ status = ACTIVE

(* --------------------------------- C20 --------------------------------- *)
\* A duel: one warrior and one goblin on adjacent tiles, so every turn of a
\* living unit is an attack.  The warrior's attack and the goblin's defense
\* range over all values up to the bounds.
DuelRosters ==
    {<<[Warrior(5, Pos(0, 0)) EXCEPT !.attack = a],
       [Goblin(hp, Pos(0, 1)) EXCEPT !.defense = d]>> :
        a \in 0..MaxAttack, d \in 0..MaxDefense, hp \in {1, 30}}

DamageInit ==
    \E duel \in DuelRosters :
        LET new == NewEngine(<<duel[1]>>, <<duel[2]>>) IN
        /\ player_units = <<duel[1]>>
        /\ enemy_units = <<duel[2]>>
        /\ units = new.units
        /\ order = new.order
        /\ status = new.status
        /\ current_tick = new.current_tick
        /\ pending_actions = new.pending_actions
        /\ aliased = model_copy(new.units)
        /\ kept = NoSnapshot
        /\ call = Called("create", NoAction, get_state(new))
        /\ result = CombatActionResponse(TRUE, "", get_state(new))
        /\ Unregistered

DamageNext == Tick

DamageSpec == DamageInit /\ [][DamageNext]_vars

\* floor(n / 2), by its defining inequality
HalfFloor(n) == CHOOSE q \in 0..n : 2 * q <= n /\ n < 2 * q + 2

ExpectedDamage(attack, defense) ==
    IF attack - HalfFloor(defense) >= 1 THEN attack - HalfFloor(defense) ELSE 1

HpAfterHit(hp, damage) == IF hp - damage >= 0 THEN hp - damage ELSE 0

\* The duel's two units in the order in which the tick lets them act.
DuelFirst == IF call.found.units[2].speed > call.found.units[1].speed THEN 2 ELSE 1

DuelSecond == 3 - DuelFirst

DuelFought ==
    /\ IsTick /\ call.found.status = ACTIVE
    /\ Len(call.found.units) = 2
    /\ \A i \in 1..2 : call.found.units[i].hp > 0

\* C20: one attack deals max(1, attack - floor(defense / 2)) for every
\* attack >= 0 and defense >= 0 (20 against 10 deals 15, 5 against 100 deals
\* 1), and it sets the target's hit points to max(0, hp - damage).
C20_Damage ==
    DuelFought =>
        LET was     == call.found.units
            now     == result.state.units
            hitBack == HpAfterHit(was[DuelSecond].hp,
                           ExpectedDamage(was[DuelFirst].attack, was[DuelSecond].defense))
        IN  /\ now[DuelSecond].hp = hitBack
            /\ now[DuelFirst].hp =
                   IF hitBack = 0 THEN was[DuelFirst].hp
                   ELSE HpAfterHit(was[DuelFirst].hp,
                            ExpectedDamage(was[DuelSecond].attack, was[DuelFirst].defense))
            /\ was[1].attack = 20 /\ was[2].defense = 10 /\ was[2].hp = 30 /\ was[1].hp > 2
                   => now[2].hp = 15
            /\ was[1].attack = 5 /\ was[2].defense = 100 /\ was[2].hp = 30 /\ was[1].hp > 2
                   => now[2].hp = 29
            /\ \A i \in 1..2 : units[now[i].id].hp = now[i].hp

\* The floor: 5 against 100 took one hit point.
C20_Witness ==
    /\ DuelFought
    /\ call.found.units[1].attack = 5 /\ call.found.units[2].defense = 100
    /\ call.found.units[2].hp = 30 /\ result.state.units[2].hp = 29

(* --------------------------------- C12 --------------------------------- *)
\* The caller of CombatEngine(...) keeps the unit objects it passed in and
\* goes on using them next to the session.
CallerInit ==
    \E hp \in {1, 3} :
        LET pu  == <<Warrior(3, Pos(0, 0))>>
            eu  == <<Goblin(hp, Pos(MaxX, 1))>>
            new == NewEngine(pu, eu)
        IN  /\ player_units = pu
            /\ enemy_units = eu
            /\ units = new.units
            /\ order = new.order
            /\ status = new.status
            /\ current_tick = new.current_tick
            /\ pending_actions = new.pending_actions
            /\ aliased = model_copy(new.units)
            /\ kept = NoSnapshot
            /\ call = Called("create", NoAction, get_state(new))
            /\ result = CombatActionResponse(TRUE, "", get_state(new))
            /\ Unregistered

\* original.hp = hp: a field of the original object; the copy has its own.
CallerSetsHp ==
    /\ \E hp \in {1} :
          \/ /\ player_units # <<>>
             /\ player_units' = [player_units EXCEPT ![1].hp = hp]
             /\ UNCHANGED enemy_units
          \/ /\ enemy_units # <<>>
             /\ enemy_units' = [enemy_units EXCEPT ![1].hp = hp]
             /\ UNCHANGED player_units
    /\ call' = Called("caller", NoAction, get_state(self))
    /\ UNCHANGED <<units, order, status, current_tick, pending_actions, aliased, result,
                   kept>>
    /\ UNCHANGED registry_vars

\* The session's unit that holds the same Position object, if there is one.
SeenThrough(id, position) ==
    IF id \in aliased THEN [units EXCEPT ![id].position = position] ELSE units

\* original.position.x = x: a field of the Position object of the original.
CallerSetsX ==
    /\ \E x \in {MaxX} :
          \/ /\ player_units # <<>> /\ player_units[1].position # None
             /\ player_units' = [player_units EXCEPT ![1].position.x = x]
             /\ units' = SeenThrough(player_units[1].id, player_units'[1].position)
             /\ UNCHANGED enemy_units
          \/ /\ enemy_units # <<>> /\ enemy_units[1].position # None
             /\ enemy_units' = [enemy_units EXCEPT ![1].position.x = x]
             /\ units' = SeenThrough(enemy_units[1].id, enemy_units'[1].position)
             /\ UNCHANGED player_units
    /\ call' = Called("caller", NoAction, get_state(self))
    /\ UNCHANGED <<order, status, current_tick, pending_actions, aliased, result, kept>>
    /\ UNCHANGED registry_vars

CallerNext == ProcessAction \/ Tick \/ CallerSetsHp \/ CallerSetsX

CallerSpec == CallerInit /\ [][CallerNext]_vars

\* C12: create copies the roster units, so nothing the caller does to its
\* original unit objects afterwards, a change of the coordinates of an
\* original's position included, changes a unit of the session.
C12_CallerChangesNothing == call.op = "caller" => SessionUntouched

(* ------------------------ the routes and the registry ------------------ *)
\* The ids uuid4 may return: as many as sessions are created.
Ids == {"c1", "c2"}

\* A generator that only avoids the ids of the sessions that exist.
uuid4_unused(used) == Ids \ DOMAIN combat_instances

\* A generator that may return any id again.
uuid4_any(used) == Ids

\* str(uuid.uuid4()): an id that was not returned before.
uuid4(used) == Ids \ used

Response(status_code, combat_id, body) ==
    [status_code |-> status_code, combat_id |-> combat_id, body |-> body]

\* HTTPException(status_code=404, detail="Combat not found")
NotFound == Response(404, NoId, "Combat not found")

Outcome(instances, response) == [instances |-> instances, response |-> response]

Without(instances, combat_id) ==
    [id \in DOMAIN instances \ {combat_id} |-> instances[id]]

With(instances, combat_id, engine) ==
    [id \in DOMAIN instances \cup {combat_id} |->
        IF id = combat_id THEN engine ELSE instances[id]]

start_combat(instances, combat_id, pu, eu) ==
    LET engine == NewEngine(pu, eu) IN
    Outcome(With(instances, combat_id, engine),
            Response(200, combat_id, get_state(engine)))

get_combat_state(instances, combat_id) ==
    IF combat_id \notin DOMAIN instances THEN Outcome(instances, NotFound)
    ELSE Outcome(instances, Response(200, combat_id, get_state(instances[combat_id])))

submit_action(instances, combat_id, action) ==
    IF combat_id \notin DOMAIN instances THEN Outcome(instances, NotFound)
    ELSE LET out == process_action(instances[combat_id], action) IN
         Outcome(With(instances, combat_id, out.self),
                 Response(200, combat_id, out.response))

\* A tick route that advances every session of the registry.
run_tick_all(instances, combat_id) ==
    IF combat_id \notin DOMAIN instances THEN Outcome(instances, NotFound)
    ELSE LET after == [id \in DOMAIN instances |-> tick(instances[id])] IN
         Outcome(after, Response(200, combat_id, get_state(after[combat_id])))

run_tick(instances, combat_id) ==
    IF combat_id \notin DOMAIN instances THEN Outcome(instances, NotFound)
    ELSE LET engine == tick(instances[combat_id]) IN
         Outcome(With(instances, combat_id, engine),
                 Response(200, combat_id, get_state(engine)))

\* A delete that answers "deleted" whether or not the session exists.
end_combat_idempotent(instances, combat_id) ==
    Outcome(Without(instances, combat_id), Response(200, combat_id, "deleted"))

end_combat(instances, combat_id) ==
    IF combat_id \in DOMAIN instances
    THEN Outcome(Without(instances, combat_id), Response(200, combat_id, "deleted"))
    ELSE Outcome(instances, NotFound)

(* --------------------------- requests in flight ------------------------ *)
Request(op, combat_id, action) ==
    [op |-> op, combat_id |-> combat_id, action |-> action]

\* Every session is started from the same two rosters.
ApiPlayers == <<Warrior(3, None)>>

ApiEnemies == <<Goblin(3, Pos(0, 1))>>

ApiRequests ==
    {Request("start", NoId, NoAction)}
        \cup {Request(op, id, NoAction) : op \in {"state", "tick", "end"}, id \in Ids}
        \cup {Request("action", id, PlaceUnit("p1", Pos(0, 0))) : id \in Ids}

\* The clients whose requests may be in flight together.
Clients == {"a", "b"}

\* One request, or two requests in flight together for the same session
\* (two starts among them).
Batches ==
    [{"a"} -> ApiRequests]
        \cup {batch \in [Clients -> ApiRequests] :
                 batch["a"].combat_id = batch["b"].combat_id}

Count(batch, op, combat_id) ==
    Cardinality({c \in DOMAIN batch :
                    batch[c].op = op /\ batch[c].combat_id = combat_id})

\* The requests that keep the counters of every session within the bounds.
WithinBounds(batch) ==
    /\ Count(batch, "start", NoId) <= Cardinality(Ids \ issued)
    /\ \A id \in DOMAIN combat_instances :
          /\ Count(batch, "tick", id) > 0 /\ ~Ended(combat_instances[id]) =>
                 combat_instances[id].current_tick + Count(batch, "tick", id) <= MaxTick
          /\ Len(combat_instances[id].pending_actions) + Count(batch, "action", id)
                 <= MaxLog

\* A handler that works on the registry as it was when its request came in.
registry_on_arrival(arrived, now) == arrived

\* The registry a handler works on.  The routes are coroutines without an
\* await: the event loop runs each from its first statement to its return,
\* so a handler works on the registry as the handlers before it left it.
registry_seen(arrived, now) == now

Serve(client, out) ==
    /\ combat_instances' = out.instances
    /\ handled' = Append(handled, [client   |-> client,
                                   request  |-> inflight[client],
                                   response |-> out.response,
                                   before   |-> combat_instances,
                                   used     |-> issued])
    /\ inflight' = [c \in DOMAIN inflight \ {client} |-> inflight[c]]
    /\ UNCHANGED arrival
    /\ UNCHANGED engine_vars

Receives(client, op) == client \in DOMAIN inflight /\ inflight[client].op = op

ApiInit ==
    LET none == NewEngine(<<>>, <<>>) IN
    /\ player_units = ApiPlayers
    /\ enemy_units = ApiEnemies
    /\ units = none.units
    /\ order = none.order
    /\ status = none.status
    /\ current_tick = none.current_tick
    /\ pending_actions = none.pending_actions
    /\ aliased = {}
    /\ kept = NoSnapshot
    /\ call = Called("", NoAction, get_state(none))
    /\ result = CombatActionResponse(TRUE, "", get_state(none))
    /\ Unregistered

\* Requests come in while no handler is running.
Arrive ==
    /\ DOMAIN inflight = {}
    /\ \E batch \in Batches :
          /\ WithinBounds(batch)
          /\ inflight' = batch
    /\ arrival' = combat_instances
    /\ handled' = <<>>
    /\ UNCHANGED <<combat_instances, issued>>
    /\ UNCHANGED engine_vars

StartCombat(client) ==
    /\ Receives(client, "start")
    /\ \E combat_id \in uuid4(issued) :
          /\ Serve(client, start_combat(registry_seen(arrival, combat_instances),
                                        combat_id, player_units, enemy_units))
          /\ issued' = issued \cup {combat_id}

GetCombatState(client) ==
    /\ Receives(client, "state")
    /\ Serve(client, get_combat_state(registry_seen(arrival, combat_instances),
                                      inflight[client].combat_id))
    /\ UNCHANGED issued

SubmitAction(client) ==
    /\ Receives(client, "action")
    /\ Serve(client, submit_action(registry_seen(arrival, combat_instances),
                                   inflight[client].combat_id, inflight[client].action))
    /\ UNCHANGED issued

RunTick(client) ==
    /\ Receives(client, "tick")
    /\ Serve(client, run_tick(registry_seen(arrival, combat_instances),
                              inflight[client].combat_id))
    /\ UNCHANGED issued

EndCombat(client) ==
    /\ Receives(client, "end")
    /\ Serve(client, end_combat(registry_seen(arrival, combat_instances),
                                inflight[client].combat_id))
    /\ UNCHANGED issued

ApiNext ==
    \/ Arrive
    \/ \E client \in Clients :
          \/ StartCombat(client)
          \/ GetCombatState(client)
          \/ SubmitAction(client)
          \/ RunTick(client)
          \/ EndCombat(client)

ApiSpec == ApiInit /\ [][ApiNext]_vars

(* ------------------------------ C14 .. C18 ----------------------------- *)
\* The request handled last.
Last == handled[Len(handled)]

Served(ops) == handled # <<>> /\ Last.request.op \in ops

\* Both requests of a pair have been handled.
PairDone == DOMAIN inflight = {} /\ Len(handled) = 2

\* The sessions other than combat_id are all there, as they were.
OthersKept(before, combat_id) ==
    \A other \in DOMAIN before \ {combat_id} :
        other \in DOMAIN combat_instances /\ combat_instances[other] = before[other]

\* C14: getState, submitAction, tick and delete with an id that is not in the
\* registry (never created, or deleted) fail with NotFound and change neither
\* a session nor the registry; a second delete of an id fails with NotFound.
C14_UnknownId ==
    /\ Served({"state", "action", "tick", "end"})
           /\ Last.request.combat_id \notin DOMAIN Last.before
         => /\ Last.response = NotFound
            /\ Last.response.status_code = 404
            /\ combat_instances = Last.before
            /\ issued = Last.used
    /\ Len(handled) = 2 /\ handled[1].request.op = "end" /\ handled[2].request.op = "end"
           /\ handled[1].response.status_code = 200
         => handled[2].response = NotFound

\* A delete was answered, and the second delete of the same id was not.
C14_Witness ==
    /\ PairDone
    /\ handled[1].request.op = "end" /\ handled[1].response.status_code = 200
    /\ handled[2].request.op = "end" /\ handled[2].response = NotFound
    /\ DOMAIN combat_instances # {}

\* C15: once delete has succeeded for an id, every later getState,
\* submitAction and tick on it fails with NotFound, the id never names a
\* session again, and a delete leaves every other session present and
\* unchanged.
C15_DeletedForGood ==
    /\ Served({"state", "action", "tick"})
           /\ Last.request.combat_id \in Last.used \ DOMAIN Last.before
         => Last.response = NotFound
    /\ handled # <<>> =>
           \A id \in Last.used \ DOMAIN Last.before : id \notin DOMAIN combat_instances
    /\ Served({"end"}) /\ Last.response.status_code = 200
         => /\ DOMAIN combat_instances = DOMAIN Last.before \ {Last.request.combat_id}
            /\ OthersKept(Last.before, Last.request.combat_id)

\* A tick for a deleted session is refused while another session exists.
C15_Witness ==
    /\ Served({"tick"})
    /\ Last.request.combat_id \in Last.used \ DOMAIN Last.before
    /\ Last.response = NotFound
    /\ DOMAIN combat_instances # {}

\* C16: a tick, an action or a delete on one session changes nothing of any
\* other session, sessions started from the same rosters included.
C16_SessionsIndependent ==
    Served({"tick", "action", "end"}) => OthersKept(Last.before, Last.request.combat_id)

\* Two sessions in the same state, one of which was then advanced by a tick.
C16_Witness ==
    /\ Served({"tick"})
    /\ Last.response.status_code = 200
    /\ \E other \in DOMAIN Last.before \ {Last.request.combat_id} :
          /\ Last.before[other] = Last.before[Last.request.combat_id]
          /\ combat_instances[other] # combat_instances[Last.request.combat_id]
          /\ Last.before[other].units["p1"].position # None

\* One request run alone on a registry, as its route handles it.
Alone(instances, request) ==
    IF request.op = "state" THEN get_combat_state(instances, request.combat_id)
    ELSE IF request.op = "action"
         THEN submit_action(instances, request.combat_id, request.action)
    ELSE IF request.op = "tick" THEN run_tick(instances, request.combat_id)
    ELSE end_combat(instances, request.combat_id)

\* The two requests of the pair, run one at a time in the order first, second
\* from the registry they arrived at, give the registry and the two answers
\* that the pair gave.
AsIfInOrder(first, second) ==
    LET one == Alone(arrival, handled[first].request)
        two == Alone(one.instances, handled[second].request)
    IN  /\ two.instances = combat_instances
        /\ one.response = handled[first].response
        /\ two.response = handled[second].response

C18_RegistrySafe ==
    /\ PairDone /\ (\A i \in 1..2 : handled[i].request.op = "start") =>
           /\ \A i \in 1..2 : handled[i].response.status_code = 200
           /\ handled[1].response.combat_id # handled[2].response.combat_id
           /\ DOMAIN combat_instances =
                  DOMAIN arrival \cup {handled[i].response.combat_id : i \in 1..2}
           /\ Cardinality(DOMAIN combat_instances) = Cardinality(DOMAIN arrival) + 2
           /\ \A i \in 1..2 :
                  get_state(combat_instances[handled[i].response.combat_id])
                      = handled[i].response.body
           /\ OthersKept(arrival, NoId)
    /\ PairDone =>
           \A i, j \in 1..2 :
               handled[i].request.op = "end"
                   /\ handled[j].request.op \in {"state", "tick", "action"} =>
                       /\ \/ handled[j].response = NotFound
                          \/ handled[j].response = Alone(arrival, handled[j].request).response
                       /\ handled[j].response.status_code \in {200, 404}
                       /\ handled[j].request.combat_id \notin DOMAIN combat_instances
                       /\ handled[i].response = Alone(arrival, handled[i].request).response

\* Two starts in flight together on an empty registry.
C18_Witness ==
    /\ PairDone
    /\ \A i \in 1..2 : handled[i].request.op = "start"
    /\ handled[1].response.combat_id # handled[2].response.combat_id
    /\ Cardinality(DOMAIN combat_instances) = 2

\* A tick that was handled before the delete it was in flight with.
C18_WitnessRace ==
    /\ PairDone
    /\ handled[1].request.op = "tick" /\ handled[1].response.status_code = 200
    /\ handled[2].request.op = "end" /\ handled[2].response.status_code = 200

(* --------------------------------- C19 --------------------------------- *)
\* Two sessions started from the same rosters are given the same actions and
\* ticks, each request to one session paired with the same request to the
\* other; the handlers of a pair run in either order.
TwinPlayers ==
    {<<Warrior(3, p), [Warrior(3, q) EXCEPT !.id = "p2"]>> : p, q \in {None, Pos(0, 0)}}

TwinEnemies == {<<Goblin(3, Pos(0, 1))>>, <<Goblin(3, Pos(MaxX, 1))>>}

TwinActions ==
    {PlaceUnit(id, p) : id \in {"p1", "p2"}, p \in {Pos(0, 0), Pos(1, PlayerZoneMaxY)}}

TwinOf(client) == IF client = "a" THEN "c1" ELSE "c2"

TwinBatches ==
    {[client \in Clients |-> Request("tick", TwinOf(client), NoAction)]}
        \cup {[client \in Clients |-> Request("action", TwinOf(client), action)] :
                 action \in TwinActions}

TwinInit ==
    \E pu \in TwinPlayers, eu \in TwinEnemies :
        LET none == NewEngine(<<>>, <<>>)
            one  == start_combat(NoInstances, "c1", pu, eu)
            two  == start_combat(one.instances, "c2", pu, eu)
        IN  /\ player_units = pu
            /\ enemy_units = eu
            /\ units = none.units
            /\ order = none.order
            /\ status = none.status
            /\ current_tick = none.current_tick
            /\ pending_actions = none.pending_actions
            /\ aliased = {}
            /\ kept = NoSnapshot
            /\ call = Called("", NoAction, get_state(none))
            /\ result = CombatActionResponse(TRUE, "", get_state(none))
            /\ combat_instances = two.instances
            /\ issued = {"c1", "c2"}
            /\ inflight = NoRequests
            /\ arrival = NoInstances
            /\ handled = <<[client |-> "a", request |-> Request("start", NoId, NoAction),
                            response |-> one.response, before |-> NoInstances,
                            used |-> {}],
                           [client |-> "b", request |-> Request("start", NoId, NoAction),
                            response |-> two.response, before |-> one.instances,
                            used |-> {"c1"}]>>

TwinArrive ==
    /\ DOMAIN inflight = {}
    /\ \E batch \in TwinBatches :
          /\ WithinBounds(batch)
          /\ inflight' = batch
    /\ arrival' = combat_instances
    /\ handled' = <<>>
    /\ UNCHANGED <<combat_instances, issued>>
    /\ UNCHANGED engine_vars

TwinNext ==
    \/ TwinArrive
    \/ \E client \in Clients : SubmitAction(client) \/ RunTick(client)

TwinSpec == TwinInit /\ [][TwinNext]_vars

Strong(is_player, attack) ==
    UnitData(IF is_player THEN "p1" ELSE "e1", "warrior", "Strong", 200, 200,
             attack, 20, 20, Pos(1, 1), is_player)

Weak(is_player, hp, defense, position) ==
    UnitData(IF is_player THEN "p1" ELSE "e1", "warrior", "Weak", hp, 10,
             5, defense, 5, position, is_player)

\* The eight tiles around (1, 1).
Neighbours == {Pos(x, y) : x \in 0..2, y \in 0..2} \ {Pos(1, 1)}

\* One strong and one weak unit on adjacent tiles, the strong one faster and
\* with a damage of at least the weak unit's hit points.
LopsidedRosters ==
    {<<Strong(side, attack), Weak(~side, hp, defense, position)>> :
        side \in BOOLEAN, position \in Neighbours,
        attack \in (1..MaxAttack) \cup {100}, hp \in {1, 5, 10},
        defense \in {0, 7}}

LopsidedInit ==
    \E pair \in LopsidedRosters :
        /\ calculate_damage(pair[1], pair[2]) >= pair[2].hp
        /\ LET pu  == SelectSeq(pair, LAMBDA u : u.is_player)
               eu  == SelectSeq(pair, LAMBDA u : ~u.is_player)
               new == NewEngine(pu, eu)
           IN  /\ player_units = pu
               /\ enemy_units = eu
               /\ units = new.units
               /\ order = new.order
               /\ status = new.status
               /\ current_tick = new.current_tick
               /\ pending_actions = new.pending_actions
               /\ aliased = model_copy(new.units)
               /\ kept = NoSnapshot
               /\ call = Called("create", NoAction, get_state(new))
               /\ result = CombatActionResponse(TRUE, "", get_state(new))
               /\ Unregistered

LopsidedNext == Tick

LopsidedSpec == LopsidedInit /\ [][LopsidedNext]_vars

\* The strong unit as it is now and as it was given to create.
StrongNow == CHOOSE u \in {units[id] : id \in DOMAIN units} : u.name = "Strong"

StrongGiven == CHOOSE u \in SeqToSet(player_units \o enemy_units) : u.name = "Strong"

\* C21: one unit per side on adjacent tiles, the faster one's damage at least
\* the other's hit points: the winner's status is reached within 3 ticks
\* (PLAYER_WON for a strong player unit, ENEMY_WON for a strong enemy unit)
\* and the defeated unit deals no damage.
C21_LopsidedEnds ==
    /\ status = ACTIVE => current_tick < 3
    /\ current_tick >= 1 =>
           status = IF StrongGiven.is_player THEN PLAYER_WON ELSE ENEMY_WON
    /\ StrongNow.hp = StrongGiven.hp

\* attack 100 against 10 hit points and no defense, the enemy being strong.
C21_Witness ==
    /\ IsTick /\ call.found.status = ACTIVE
    /\ status = ENEMY_WON
    /\ ~StrongGiven.is_player /\ StrongGiven.attack = 100
    /\ player_units[1].hp = 10 /\ player_units[1].defense = 0
    /\ units["p1"].hp = 0

(* --------------------------------- C22 --------------------------------- *)
\* The board of the reference configuration.
GRID_WIDTH == 8

GRID_HEIGHT == 10

\* Rosters on the board: a warrior in reserve or in its corner, a goblin in
\* the far corner or in the player's zone.
BoardPlayers == {<<Warrior(3, p)>> : p \in {None, Pos(0, 0)}}

BoardEnemies ==
    {<<Goblin(3, p)>> : p \in {Pos(GRID_WIDTH - 1, GRID_HEIGHT - 1), Pos(1, 2)}}

\* place_unit of the warrior on the first column, the last column and the
\* column after the last, in the first and the last row of the zone.
BoardActions ==
    {PlaceUnit("p1", Pos(x, y)) :
        x \in {0, GRID_WIDTH - 1, GRID_WIDTH}, y \in {0, PlayerZoneMaxY}}

BoardInit ==
    \E pu \in BoardPlayers, eu \in BoardEnemies :
        LET new == NewEngine(pu, eu) IN
        /\ player_units = pu
        /\ enemy_units = eu
        /\ units = new.units
        /\ order = new.order
        /\ status = new.status
        /\ current_tick = new.current_tick
        /\ pending_actions = new.pending_actions
        /\ aliased = model_copy(new.units)
        /\ kept = NoSnapshot
        /\ call = Called("create", NoAction, get_state(new))
        /\ result = CombatActionResponse(TRUE, "", get_state(new))
        /\ Unregistered

BoardPlace == \E action \in BoardActions : Submit(action)

BoardNext == BoardPlace \/ Tick

BoardSpec == BoardInit /\ [][BoardNext]_vars

OnBoard(position) ==
    /\ 0 <= position.x /\ position.x < GRID_WIDTH
    /\ 0 <= position.y /\ position.y < GRID_HEIGHT

\* C22: from rosters whose deployed units are on the board, every deployed
\* unit is on the board (0 <= x < 8, 0 <= y < 10) after any sequence of
\* place_unit actions and ticks.
C22_OnBoard ==
    \A id \in DOMAIN units : units[id].position # None => OnBoard(units[id].position)


(* ------------------------- battles, tick by tick ----------------------- *)
\* UnitType
UnitTypes == {"warrior", "archer", "mage", "knight", "healer"}

\* A unit of the battles below: 6 hit points at most, attack 3, defense 2, so
\* that a hit takes 2 hit points.
Fighter(id, type, hp, speed, position, is_player) ==
    UnitData(id, type, id, hp, 6, 3, 2, speed, position, is_player)

\* Player rosters: nobody; unit a alone, of every type, slow or fast,
\* undeployed or in the corner, or without hit points; or a with a second
\* warrior b next to it, behind it or undeployed, alive or not.
BattlePlayers ==
    {<<>>, <<Fighter("a", "warrior", 0, 10, Pos(0, 0), TRUE)>>}
    \cup {<<Fighter("a", type, 6, speed, p, TRUE)>> :
              type \in UnitTypes, speed \in {10, 12}, p \in {None, Pos(0, 0)}}
    \cup {<<Fighter("a", type, 6, speed, Pos(0, 0), TRUE),
            Fighter("b", "warrior", hp, 10, q, TRUE)>> :
              type \in {"warrior", "archer"}, speed \in {10, 12}, hp \in {0, 6},
              q \in {None, Pos(0, 1), Pos(1, 0)}}

\* Enemy rosters: nobody; unit e alone, a warrior or an archer, with one hit
\* point or all, as fast as the slow player units or faster, undeployed or
\* on a tile at squared distance 2, 4, 5, 8, 25 or 26 from the corner, or
\* without hit points; or e with a second warrior f as far from the corner
\* as e, or nearer, or farther.
BattleEnemies ==
    {<<>>, <<Fighter("e", "warrior", 0, 10, Pos(0, 2), FALSE)>>}
    \cup {<<Fighter("e", type, hp, speed, p, FALSE)>> :
              type \in {"warrior", "archer"}, hp \in {1, 6}, speed \in {10, 11},
              p \in {None, Pos(1, 1), Pos(0, 2), Pos(2, 1), Pos(2, 2),
                     Pos(0, 5), Pos(1, 5)}}
    \cup {<<Fighter("e", "warrior", hp, 11, pq[1], FALSE),
            Fighter("f", "warrior", 6, 10, pq[2], FALSE)>> :
              hp \in {0, 1, 6},
              pq \in {<<Pos(0, 2), Pos(2, 0)>>, <<Pos(0, 1), Pos(1, 0)>>,
                      <<Pos(0, 2), Pos(1, 1)>>, <<Pos(1, 1), Pos(0, 3)>>}}

\* The one action of these battles: unit a is put on a tile of the zone.
BattleActions == {PlaceUnit("a", Pos(1, PlayerZoneMaxY))}

BattleInit ==
    \E pu \in BattlePlayers, eu \in BattleEnemies :
        LET new == NewEngine(pu, eu) IN
        /\ player_units = pu
        /\ enemy_units = eu
        /\ units = new.units
        /\ order = new.order
        /\ status = new.status
        /\ current_tick = new.current_tick
        /\ pending_actions = new.pending_actions
        /\ aliased = model_copy(new.units)
        /\ kept = NoSnapshot
        /\ call = Called("create", NoAction, get_state(new))
        /\ result = CombatActionResponse(TRUE, "", get_state(new))
        /\ Unregistered

BattlePlace == \E action \in BattleActions : Submit(action)

BattleNext == BattlePlace \/ Tick

BattleSpec == BattleInit /\ [][BattleNext]_vars

(* ------------------------ reading the last tick ------------------------ *)
\* The units the last call found, by id.
Found == UnitsOf(call.found)

NoLiving(us, side) == \A id \in DOMAIN us : us[id].is_player = side => us[id].hp <= 0

\* The last call was a tick on an ACTIVE session.
TickedActive == IsTick /\ call.found.status = ACTIVE

(* --------------------------------- C23 --------------------------------- *)
\* C23: a tick that starts on an ACTIVE session with no living enemy unit
\* sets PLAYER_WON and no unit moves or attacks; otherwise one that starts
\* with no living player unit sets ENEMY_WON and no unit acts.  The enemy
\* side is looked at first: with no living unit on either side (two empty
\* rosters, say) the status becomes PLAYER_WON.
C23_EarlyWin ==
    TickedActive =>
        /\ NoLiving(Found, FALSE) => status = PLAYER_WON /\ units = Found
        /\ ~NoLiving(Found, FALSE) /\ NoLiving(Found, TRUE) =>
               status = ENEMY_WON /\ units = Found

C23_Witness ==
    /\ TickedActive
    /\ units = <<>>
    /\ status = PLAYER_WON

C23_WitnessEnemy ==
    /\ TickedActive
    /\ status = ENEMY_WON
    /\ units = Found
    /\ \E id \in DOMAIN units : units[id].position # None /\ units[id].hp = 0


(* --------------------------------- C24 --------------------------------- *)
\* C24: the status agrees with the population.  PLAYER_WON: no enemy unit
\* has hit points left.  ENEMY_WON: no player unit has, and some enemy unit
\* has.  ACTIVE once a tick has been counted: both sides have a unit with
\* hit points left, deployed or not.  And a tick ends with no living unit on
\* either side only if it began that way.
C24_StatusAgrees ==
    /\ status = PLAYER_WON => NoLiving(units, FALSE)
    /\ status = ENEMY_WON => NoLiving(units, TRUE) /\ ~NoLiving(units, FALSE)
    /\ status = ACTIVE /\ current_tick >= 1 =>
           ~NoLiving(units, TRUE) /\ ~NoLiving(units, FALSE)
    /\ IsTick /\ NoLiving(units, TRUE) /\ NoLiving(units, FALSE) =>
           NoLiving(Found, TRUE) /\ NoLiving(Found, FALSE)

C24_Witness ==
    /\ TickedActive
    /\ status = PLAYER_WON
    /\ ~NoLiving(Found, FALSE) /\ NoLiving(units, FALSE)
    /\ \E id \in DOMAIN units : units[id].is_player /\ 0 < units[id].hp
                                /\ units[id].position = None

(* --------------------------------- C25 --------------------------------- *)
\* C25: hit points never fall below 0 and never rise: no tick and no action
\* gives a unit more hit points than it had (a healer heals nobody), an
\* action leaves all hit points as they were, and when no unit was created
\* with more hit points than its maximum, none ever has more.
C25_HpOnlyDown ==
    /\ \A id \in DOMAIN units : units[id].hp >= 0
    /\ call.op # "create" =>
           \A id \in DOMAIN units : units[id].hp <= Found[id].hp
    /\ IsAction => \A id \in DOMAIN units : units[id].hp = Found[id].hp
    /\ (\A u \in SeqToSet(player_units \o enemy_units) : u.hp <= u.max_hp) =>
           \A id \in DOMAIN units : units[id].hp <= units[id].max_hp

C25_Witness ==
    /\ TickedActive
    /\ "a" \in DOMAIN units /\ units["a"].type = "healer"
    /\ \E id \in DOMAIN units : units[id].hp = 0 /\ Found[id].hp > 0
    /\ \E id \in DOMAIN units : 0 < units[id].hp /\ units[id].hp < Found[id].hp


(* ---------------------- the turns of the last tick --------------------- *)
\* The loop of tick with every pass written down: who had the turn, the
\* units before the pass and the units after it.
RECURSIVE Turns(_, _, _, _, _)
Turns(us, turn, i, players, enemies) ==
    IF i > Len(turn) THEN <<>>
    ELSE LET after == UnitTurn(us, turn[i], players, enemies) IN
         <<[actor |-> turn[i], before |-> us, after |-> after]>>
             \o Turns(after, turn, i + 1, players, enemies)

\* The last call was a tick that got as far as the loop.
Fought == TickedActive /\ ~NoLiving(Found, TRUE) /\ ~NoLiving(Found, FALSE)

\* The passes of the loop in the last call, none unless it was such a tick.
LastTurns ==
    IF Fought
    THEN Turns(Found, SortedBySpeed(Found, order), 1,
               Living(Found, order, TRUE), Living(Found, order, FALSE))
    ELSE <<>>

\* The passes end in the units the session has now.
EndsInUnits(trace) == trace # <<>> => trace[Len(trace)].after = units

\* The unit of a pass can act: it has hit points and a position.
Able(t) == t.before[t.actor].hp > 0 /\ t.before[t.actor].position # None

\* The units that lost or gained hit points, and those that changed
\* position, in a pass.
Hurt(t) == {v \in DOMAIN t.before : t.after[v].hp # t.before[v].hp}

Shifted(t) == {v \in DOMAIN t.before : t.after[v].position # t.before[v].position}

\* The place of a unit in the rosters given to create, the player roster
\* first.
RosterIndex(id) ==
    LET all == player_units \o enemy_units
    IN  CHOOSE i \in 1..Len(all) : all[i].id = id

\* The opposing units that are alive and deployed when the pass begins.
Candidates(t) ==
    {v \in DOMAIN t.before :
        /\ t.before[v].is_player # t.before[t.actor].is_player
        /\ t.before[v].hp > 0
        /\ t.before[v].position # None}

\* Squared Euclidean distance from the unit of the pass to unit v.
Away2(t, v) == DistSq(t.before[t.actor].position, t.before[v].position)

\* The candidates that are nearer than every other candidate, or as near
\* and earlier in the rosters: one unit, or none when there is no candidate.
Nearest(t) ==
    {v \in Candidates(t) :
        \A w \in Candidates(t) \ {v} :
            \/ Away2(t, v) < Away2(t, w)
            \/ Away2(t, v) = Away2(t, w) /\ RosterIndex(v) < RosterIndex(w)}

(* --------------------------------- C26 --------------------------------- *)
\* C26: a unit that has no hit points when its turn comes, be it that a
\* faster unit killed it in this very tick, neither attacks nor moves; a
\* unit with no position neither moves nor attacks, and no pass of the loop
\* changes anything about it: it is no target and loses no hit points.
C26_DeadAndUndeployedSitOut ==
    \E trace \in {LastTurns} :
        /\ EndsInUnits(trace)
        /\ \A i \in DOMAIN trace :
               /\ ~Able(trace[i]) => trace[i].after = trace[i].before
               /\ \A v \in DOMAIN Found :
                      trace[i].before[v].position = None =>
                          trace[i].after[v] = trace[i].before[v]

C26_Witness ==
    /\ Fought
    /\ \E i \in DOMAIN LastTurns :
           /\ LastTurns[i].before[LastTurns[i].actor].hp = 0
           /\ Found[LastTurns[i].actor].hp > 0
           /\ Candidates(LastTurns[i]) # {}
    /\ \E v \in DOMAIN Found : Found[v].position = None /\ Found[v].hp > 0


(* --------------------------------- C27 --------------------------------- *)
\* C27: the unit that acts aims at the opposing unit that is alive and
\* deployed at the moment of the turn and nearest by Euclidean distance, the
\* earliest in roster order among equally near ones.  Only that unit can
\* lose hit points in the pass, so never a unit killed earlier in the tick
\* and never a unit of the acting unit's own side, and a unit that moves
\* ends nearer to that unit than it was.
C27_NearestLivingFoe ==
    \E trace \in {LastTurns} :
        /\ EndsInUnits(trace)
        /\ \A i \in DOMAIN trace :
           \E t \in {trace[i]} :
               /\ Hurt(t) \subseteq Nearest(t)
               /\ Shifted(t) # {} =>
                      \E v \in Nearest(t) :
                          DistSq(t.after[t.actor].position, t.before[v].position)
                              < Away2(t, v)

\* Two enemies equally near, the earlier of the roster is hit; and a second
\* unit passes over an enemy killed earlier in the tick.
C27_Witness ==
    /\ Fought
    /\ \E i \in DOMAIN LastTurns :
       \E t \in {LastTurns[i]} :
           /\ \E v \in Hurt(t) : \E w \in Candidates(t) \ {v} :
                  Away2(t, v) = Away2(t, w)

C27_WitnessKilledEarlier ==
    /\ Fought
    /\ \E i \in DOMAIN LastTurns :
       \E t \in {LastTurns[i]} :
           /\ Hurt(t) \cup Shifted(t) # {}
           /\ \E w \in DOMAIN Found :
                  /\ Found[w].hp > 0 /\ t.before[w].hp = 0
                  /\ Found[w].is_player # Found[t.actor].is_player
                  /\ \A v \in Nearest(t) : Away2(t, w) < Away2(t, v)


(* --------------------------------- C28 --------------------------------- *)
\* Within attack range: 5.0 for an archer (dx^2 + dy^2 <= 25), 1.5 for every
\* other type (dx^2 + dy^2 <= 2, the 8 tiles around the unit).
Within(t, v) ==
    IF t.before[t.actor].type = "archer" THEN Away2(t, v) <= 25
    ELSE Away2(t, v) <= 2

C28_WitnessArcher ==
    /\ Fought
    /\ \E i \in DOMAIN LastTurns :
       \E t \in {LastTurns[i]} :
           /\ t.before[t.actor].type = "archer"
           /\ \E v \in Nearest(t) : Away2(t, v) = 25 /\ Hurt(t) = {v}

C28_WitnessArcherWalks ==
    /\ Fought
    /\ \E i \in DOMAIN LastTurns :
       \E t \in {LastTurns[i]} :
           /\ t.before[t.actor].type = "archer"
           /\ \E v \in Nearest(t) : Away2(t, v) = 26
           /\ Shifted(t) = {t.actor}


(* --------------------------------- C29 --------------------------------- *)
Sign(d) == IF d > 0 THEN 1 ELSE IF d < 0 THEN -1 ELSE 0

\* Position `to` is one step from `from` along the dominant axis toward
\* `target`: x alone changes, by the sign of dx, when |dx| > |dy|; otherwise
\* y alone changes, by the sign of dy.
DominantStep(from, to, target) ==
    LET dx == target.x - from.x
        dy == target.y - from.y
    IN  IF Abs(dx) > Abs(dy)
        THEN to.y = from.y /\ to.x - from.x = Sign(dx)
        ELSE to.x = from.x /\ to.y - from.y = Sign(dy)

\* Some other unit than the one of the pass, dead or alive, stands on tile p.
Taken(t, p) ==
    \E o \in DOMAIN t.before : o # t.actor /\ t.before[o].position = p

Manhattan(p, q) == Abs(p.x - q.x) + Abs(p.y - q.y)

\* C29: a unit that moves goes exactly one step along the dominant axis
\* toward its target, never diagonally; a unit out of range of its target
\* stays where it is exactly when another unit, dead or alive, stands on the
\* tile of that step.  Over a tick every unit's position changes by
\* Manhattan distance 0 or 1.
C29_OneStepDominantAxis ==
    \E trace \in {LastTurns} :
        /\ EndsInUnits(trace)
        /\ \A i \in DOMAIN trace :
           \E t \in {trace[i]} :
               /\ Shifted(t) # {} =>
                      \E v \in Nearest(t) :
                          DominantStep(t.before[t.actor].position,
                                       t.after[t.actor].position,
                                       t.before[v].position)
               /\ Able(t) =>
                      \A v \in Nearest(t) :
                          ~Within(t, v) =>
                              \E to \in {p \in {Pos(t.before[t.actor].position.x + d[1],
                                                    t.before[t.actor].position.y + d[2]) :
                                                   d \in {<<1, 0>>, <<-1, 0>>, <<0, 1>>, <<0, -1>>}} :
                                             DominantStep(t.before[t.actor].position, p,
                                                          t.before[v].position)} :
                                  Shifted(t) = {} <=> Taken(t, to)
        /\ IsTick =>
               \A id \in DOMAIN units :
                   IF Found[id].position = None THEN units[id].position = None
                   ELSE /\ units[id].position # None
                        /\ Manhattan(Found[id].position, units[id].position) <= 1

\* A step along y when both axes are equally far.
C29_Witness ==
    /\ Fought
    /\ \E i \in DOMAIN LastTurns :
       \E t \in {LastTurns[i]} :
           /\ Shifted(t) = {t.actor}
           /\ \E v \in Nearest(t) :
                  /\ Abs(t.before[v].position.x - t.before[t.actor].position.x) = 2
                  /\ Abs(t.before[v].position.y - t.before[t.actor].position.y) = 2
           /\ t.after[t.actor].position.x = t.before[t.actor].position.x

\* A step along x.
C29_WitnessAlongX ==
    /\ Fought
    /\ \E i \in DOMAIN LastTurns :
           /\ Shifted(LastTurns[i]) # {}
           /\ LastTurns[i].after[LastTurns[i].actor].position.x
                  # LastTurns[i].before[LastTurns[i].actor].position.x

\* A step that a dead unit on the tile cancels.
C29_WitnessBlockedByDead ==
    /\ Fought
    /\ \E i \in DOMAIN LastTurns :
       \E t \in {LastTurns[i]} :
           /\ Able(t) /\ Shifted(t) = {} /\ Hurt(t) = {}
           /\ \E v \in Nearest(t) : ~Within(t, v)
           /\ \E o \in DOMAIN t.before :
                  /\ t.before[o].hp = 0
                  /\ t.before[o].position # None
                  /\ \E v \in Nearest(t) :
                         DominantStep(t.before[t.actor].position,
                                      t.before[o].position, t.before[v].position)


(* --------------------------------- C30 --------------------------------- *)
\* The unit with this id as it was given to create.
Given(id) == (player_units \o enemy_units)[RosterIndex(id)]

\* The units of the session in order of non-increasing speed, units of one
\* speed in the order of the rosters given to create, the player roster
\* before the enemy roster.
RosterTurnOrder ==
    LET ids == DOMAIN units
        n   == Cardinality(ids)
    IN  CHOOSE s \in [1..n -> ids] :
            \A i, j \in 1..n :
                i < j =>
                    \/ Given(s[i]).speed > Given(s[j]).speed
                    \/ /\ Given(s[i]).speed = Given(s[j]).speed
                       /\ RosterIndex(s[i]) < RosterIndex(s[j])

\* C30: in a tick the units act one after another in order of non-increasing
\* speed, each on the positions and hit points that the units before it
\* left; units of equal speed act in the order of the rosters given to
\* create (player roster first, each roster in its order), whatever ticks
\* and actions came before.
C30_TurnOrder ==
    \E trace \in {LastTurns} :
        Fought =>
            /\ EndsInUnits(trace)
            /\ [i \in DOMAIN trace |-> trace[i].actor] = RosterTurnOrder
            /\ \A i \in DOMAIN trace :
                   trace[i].before = IF i = 1 THEN Found ELSE trace[i - 1].after
            /\ \A i, j \in DOMAIN trace :
                   i < j => units[trace[i].actor].speed >= units[trace[j].actor].speed

\* Third tick after an action: of two adjacent units of equal speed the
\* player's strikes first and kills, and the enemy's does not strike back.
C30_Witness ==
    /\ Fought
    /\ current_tick = 3
    /\ \E p, q \in DOMAIN units :
           /\ units[p].is_player /\ ~units[q].is_player
           /\ units[p].speed = units[q].speed
           /\ Found[q].hp > 0 /\ units[q].hp = 0
           /\ Found[p].position # None /\ Found[q].position # None
           /\ DistSq(Found[p].position, Found[q].position) <= 2
           /\ units[p].hp = Found[p].hp
    /\ \E id \in DOMAIN units : units[id].position # Given(id).position


(* --------------------------------- C31 --------------------------------- *)
\* Both sides have a living unit on the board.
BothSidesDeployed(us) ==
    \A side \in BOOLEAN :
        \E id \in DOMAIN us :
            us[id].is_player = side /\ us[id].hp > 0 /\ us[id].position # None

\* A caller that creates such a battle, every deployed unit on a tile of its
\* own, and then only calls tick.
PollInit ==
    /\ BattleInit
    /\ BothSidesDeployed(units)
    /\ NoSharedTile(units)

PollNext == Tick

PollSpec == PollInit /\ [][PollNext]_vars

\* A tick reads the units and the status and nothing else, so a tick that
\* leaves both as it found them is followed by ticks that do the same.
\* C31: combat ends, so every tick that leaves the session ACTIVE has
\* changed some unit: no series of ticks comes to a standstill before the
\* status is PLAYER_WON or ENEMY_WON.
C31_NoStandstill ==
    TickedActive /\ status = ACTIVE => units # Found


(* ----------------------- placing, check by check ----------------------- *)
\* The warrior, dead or alive, in the corner or undeployed, alone or with
\* an archer held back, against a goblin that stands inside the player's
\* zone or just beyond it.
PlacingPlayers ==
    {<<Warrior(hp, p)>> : hp \in {0, 3}, p \in {None, Pos(0, 0)}}
    \cup {<<Warrior(hp, p), Archer(2, None)>> : hp \in {0, 3}, p \in {None, Pos(0, 0)}}

PlacingEnemies ==
    {<<Goblin(3, q)>> : q \in {Pos(1, PlayerZoneMaxY - 1), Pos(1, PlayerZoneMaxY + 1)}}

\* place_unit with no unit id, an unknown one, the goblin's and the
\* warrior's, and with no target, the corner, the goblin's two tiles and a
\* free tile on the last row of the zone.
PlacingActions ==
    {PlaceUnit(id, p) :
        id \in {NoId, "zz", "e1", "p1"},
        p \in {None, Pos(0, 0), Pos(1, PlayerZoneMaxY - 1),
               Pos(1, PlayerZoneMaxY), Pos(1, PlayerZoneMaxY + 1)}}

PlacingInit ==
    \E pu \in PlacingPlayers, eu \in PlacingEnemies :
        LET new == NewEngine(pu, eu) IN
        /\ player_units = pu
        /\ enemy_units = eu
        /\ units = new.units
        /\ order = new.order
        /\ status = new.status
        /\ current_tick = new.current_tick
        /\ pending_actions = new.pending_actions
        /\ aliased = model_copy(new.units)
        /\ kept = NoSnapshot
        /\ call = Called("create", NoAction, get_state(new))
        /\ result = CombatActionResponse(TRUE, "", get_state(new))
        /\ Unregistered

PlacingPlace == \E action \in PlacingActions : Submit(action)

PlacingNext == PlacingPlace \/ Tick

PlacingSpec == PlacingInit /\ [][PlacingNext]_vars

(* --------------------------------- C32 --------------------------------- *)
\* What a place_unit call found to be wrong, read from the snapshot the call
\* found.
NoField == call.action.unit_id = NoId \/ call.action.target_position = None

UnknownUnit == call.action.unit_id \notin DOMAIN Found

EnemyUnit == ~Found[call.action.unit_id].is_player

OffZone == call.action.target_position.y > 3

TileTaken ==
    \E o \in DOMAIN Found :
        o # call.action.unit_id /\ Found[o].position = call.action.target_position

PlacedWhileActive == IsPlace /\ call.found.status = ACTIVE

\* C32: place_unit reports the first precondition that fails, in this
\* order: unit id or target position missing, unit unknown, unit owned by
\* the enemy, target row outside the player's zone, tile occupied.
C32_FirstFailureReported ==
    PlacedWhileActive =>
        IF NoField
        THEN ~result.success /\ result.message = "Unit ID and target position required"
        ELSE IF UnknownUnit
        THEN ~result.success /\ result.message = "Unit not found"
        ELSE IF EnemyUnit
        THEN ~result.success /\ result.message = "Cannot place enemy units"
        ELSE IF OffZone
        THEN ~result.success /\ result.message = "Cannot deploy outside player zone"
        ELSE TileTaken =>
                 ~result.success /\ result.message = "Position already occupied"

\* The enemy's unit with a target beyond the zone.
C32_Witness ==
    /\ PlacedWhileActive
    /\ ~NoField /\ ~UnknownUnit /\ EnemyUnit /\ OffZone
    /\ result.message = "Cannot place enemy units"

\* An unknown unit with an occupied target.
C32_WitnessUnknown ==
    /\ PlacedWhileActive
    /\ ~NoField /\ UnknownUnit /\ TileTaken
    /\ result.message = "Unit not found"

\* The player's unit with a target that is beyond the zone and occupied.
C32_WitnessZone ==
    /\ PlacedWhileActive
    /\ ~NoField /\ ~UnknownUnit /\ ~EnemyUnit /\ OffZone /\ TileTaken
    /\ result.message = "Cannot deploy outside player zone"

(* --------------------------------- C33 --------------------------------- *)
\* C33: while the status is ACTIVE, place_unit of a player's unit on a free
\* tile of the zone succeeds and puts the unit there, be the unit
\* undeployed or deployed, with hit points or without, before the first
\* tick or after it.
C33_PlacedWheneverAllowed ==
    PlacedWhileActive /\ ~NoField =>
        (~UnknownUnit =>
             (~EnemyUnit /\ ~OffZone /\ ~TileTaken =>
                  /\ result.success
                  /\ units[call.action.unit_id].position = call.action.target_position))

\* A unit without hit points that stands on the board is put elsewhere
\* after the first tick.
C33_Witness ==
    /\ PlacedWhileActive /\ result.success
    /\ call.found.tick >= 1
    /\ Found[call.action.unit_id].hp = 0
    /\ Found[call.action.unit_id].position # None
    /\ Found[call.action.unit_id].position # units[call.action.unit_id].position

\* An undeployed unit with hit points is deployed before the first tick.
C33_WitnessFirst ==
    /\ PlacedWhileActive /\ result.success
    /\ call.found.tick = 0
    /\ Found[call.action.unit_id].hp > 0
    /\ Found[call.action.unit_id].position = None


(* --------------------------------- C34 --------------------------------- *)
\* Rosters with ids that repeat: the warrior, then perhaps an archer that
\* has the warrior's id, against the goblin, a goblin that has the warrior's
\* id, or both.
RepeatPlayers ==
    {<<Warrior(3, p)>> : p \in {None, Pos(0, 0)}}
    \cup {<<Warrior(3, p), [Archer(2, q) EXCEPT !.id = "p1"]>> :
              p \in {None, Pos(0, 0)}, q \in {None, Pos(1, 0)}}
    \cup {<<Warrior(3, Pos(0, 0)), Archer(2, Pos(1, 0)), Warrior(1, None)>>}

RepeatEnemies ==
    {<<Goblin(3, q)>> : q \in {Pos(0, 2), Pos(1, 1)}}
    \cup {<<[Goblin(3, q) EXCEPT !.id = "p1"]>> : q \in {Pos(0, 2), Pos(1, 1)}}
    \cup {<<Goblin(3, Pos(0, 2)), [Goblin(3, Pos(1, 1)) EXCEPT !.id = "p1"]>>,
          <<Goblin(3, Pos(0, 2)), Goblin(1, Pos(1, 1))>>}

RepeatActions == {PlaceUnit(id, Pos(1, PlayerZoneMaxY)) : id \in {"p1", "p2"}}

RepeatInit ==
    \E pu \in RepeatPlayers, eu \in RepeatEnemies :
        LET new == NewEngine(pu, eu) IN
        /\ player_units = pu
        /\ enemy_units = eu
        /\ units = new.units
        /\ order = new.order
        /\ status = new.status
        /\ current_tick = new.current_tick
        /\ pending_actions = new.pending_actions
        /\ aliased = model_copy(new.units)
        /\ kept = NoSnapshot
        /\ call = Called("create", NoAction, get_state(new))
        /\ result = CombatActionResponse(TRUE, "", get_state(new))
        /\ Unregistered

RepeatPlace == \E action \in RepeatActions : Submit(action)

RepeatNext == RepeatPlace \/ Tick

RepeatSpec == RepeatInit /\ [][RepeatNext]_vars

\* The units given to create, the player roster first.
Rosters == player_units \o enemy_units

\* The unit at place i of the rosters is the last one given with its id.
LastGiven(i) == \A j \in (i + 1)..Len(Rosters) : Rosters[j].id # Rosters[i].id

\* C34: create takes rosters whose ids repeat; the session then has one
\* unit for each id, the last one given with it, so that a unit of the enemy
\* roster takes the place of a unit of the player roster with the same id.
\* In every snapshot the ids are pairwise distinct, and they are the ids
\* given to create, no more and no fewer, after every tick and action.
C34_OneUnitPerId ==
    \E snapshot \in {result.state.units} :
        /\ \A i, j \in DOMAIN snapshot : i # j => snapshot[i].id # snapshot[j].id
        /\ {snapshot[i].id : i \in DOMAIN snapshot}
               = {Rosters[i].id : i \in DOMAIN Rosters}
        /\ call.op = "create" =>
               \A i \in DOMAIN Rosters :
                   LastGiven(i) => \E k \in DOMAIN snapshot : snapshot[k] = Rosters[i]
        /\ \A i \in DOMAIN Rosters :
               LastGiven(i) =>
                   \E k \in DOMAIN snapshot :
                       /\ snapshot[k].id = Rosters[i].id
                       /\ snapshot[k].is_player = Rosters[i].is_player
                       /\ snapshot[k].name = Rosters[i].name

\* After a tick: an id given in both rosters belongs to the enemy's unit.
C34_Witness ==
    /\ IsTick
    /\ \E i \in DOMAIN player_units, j \in DOMAIN enemy_units :
           /\ player_units[i].id = enemy_units[j].id
           /\ ~units[player_units[i].id].is_player
    /\ Len(result.state.units) < Len(Rosters)


(* --------------------------------- C35 --------------------------------- *)
\* A caller of the engine that holds on to a snapshot it was returned and
\* reads it again later.  The warrior, undeployed or in the corner, meets a
\* goblin next to the corner or two tiles from it.
SnapshotInit ==
    \E p \in {None, Pos(0, 0)}, q \in {Pos(1, 1), Pos(0, 2)} :
        LET pu  == <<Warrior(3, p)>>
            eu  == <<Goblin(3, q)>>
            new == NewEngine(pu, eu)
        IN  /\ player_units = pu
            /\ enemy_units = eu
            /\ units = new.units
            /\ order = new.order
            /\ status = new.status
            /\ current_tick = new.current_tick
            /\ pending_actions = new.pending_actions
            /\ aliased = model_copy(new.units)
            /\ kept = NoSnapshot
            /\ call = Called("create", NoAction, get_state(new))
            /\ result = CombatActionResponse(TRUE, "", get_state(new))
            /\ Unregistered

SnapshotActions == {PlaceUnit("p1", Pos(1, 0)), PlaceUnit("p1", Pos(1, PlayerZoneMaxY + 1))}

SnapshotPlace == \E action \in SnapshotActions : Submit(action)

\* engine.get_state()
GetState ==
    /\ call' = Called("get_state", NoAction, get_state(self))
    /\ result' = CombatActionResponse(TRUE, "", get_state(self))
    /\ UNCHANGED <<player_units, enemy_units, units, order, status, current_tick,
                   pending_actions, aliased, kept>>
    /\ UNCHANGED registry_vars

\* CombatState(units=list(self.units.values()), ...): the list is new, the
\* UnitData objects in it are those of self.units (pydantic keeps an
\* instance of the field's class as it is); status and tick are immutable
\* values and pending_actions is a copy.  The caller keeps what the last
\* call returned.
Keep ==
    /\ kept = NoSnapshot
    /\ call.op \in {"get_state", "process_action", "tick"}
    /\ kept' = [returned |-> result.state,
                units    |-> [i \in DOMAIN result.state.units |-> result.state.units[i].id]]
    /\ UNCHANGED <<player_units, enemy_units, units, order, status, current_tick,
                   pending_actions, aliased, call, result>>
    /\ UNCHANGED registry_vars

SnapshotNext == SnapshotPlace \/ Tick \/ GetState \/ Keep

SnapshotSpec == SnapshotInit /\ [][SnapshotNext]_vars

\* What the caller reads in the snapshot it has kept.
KeptNow ==
    [status          |-> kept.returned.status,
     tick            |-> kept.returned.tick,
     units           |-> [i \in DOMAIN kept.units |-> units[kept.units[i]]],
     pending_actions |-> kept.returned.pending_actions]

\* C35: a snapshot is a value: what getState, processAction or tick
\* returned reads the same after later ticks and actions on the session:
\* status, tick counter, the units' positions and hit points, the log.
C35_SnapshotIsValue ==
    kept # NoSnapshot => KeptNow = kept.returned


(* --------------------------------- C36 --------------------------------- *)
\* Position p lies in the smallest rectangle around the deployed units.
InSpan(us, p) ==
    LET on == {us[id].position : id \in {v \in DOMAIN us : us[v].position # None}}
    IN  /\ \E q \in on : q.x <= p.x
        /\ \E q \in on : q.x >= p.x
        /\ \E q \in on : q.y <= p.y
        /\ \E q \in on : q.y >= p.y

\* C36: a unit moves only toward a target on another tile; its step takes
\* it exactly 1 nearer to the target in Manhattan distance and to a tile
\* inside the area spanned by the units, so no coordinate becomes negative
\* and the new Position is always a valid one.
C36_MoveStaysInside ==
    \E trace \in {LastTurns} :
        /\ EndsInUnits(trace)
        /\ \A i \in DOMAIN trace :
           \E t \in {trace[i]} :
               /\ Able(t) =>
                      \A v \in Nearest(t) : ~Within(t, v) => Away2(t, v) > 0
               /\ Shifted(t) # {} =>
                      \E v \in Nearest(t) :
                      \E from \in {t.before[t.actor].position} :
                      \E to \in {t.after[t.actor].position} :
                          /\ from # t.before[v].position
                          /\ Manhattan(to, t.before[v].position)
                                 = Manhattan(from, t.before[v].position) - 1
                          /\ to.x >= 0 /\ to.y >= 0
                          /\ InSpan(t.before, to)
        /\ \A id \in DOMAIN units :
               units[id].position # None =>
                   units[id].position.x >= 0 /\ units[id].position.y >= 0

\* A unit on the edge x = 0 steps toward the corner.
C36_Witness ==
    /\ Fought
    /\ \E i \in DOMAIN LastTurns :
       \E t \in {LastTurns[i]} :
           /\ Shifted(t) = {t.actor}
           /\ t.after[t.actor].position.x = 0
           /\ t.after[t.actor].position.y < t.before[t.actor].position.y


(* --------------------------------- C37 --------------------------------- *)
\* Everything about a unit but its hit points and its position.
Identity(unit) ==
    [id |-> unit.id, type |-> unit.type, name |-> unit.name,
     max_hp |-> unit.max_hp, attack |-> unit.attack, defense |-> unit.defense,
     speed |-> unit.speed, is_player |-> unit.is_player]

\* C37: a tick changes hit points, positions, status, tick counter and log
\* and nothing else: every unit keeps its id, type, name, max_hp, attack,
\* defense, speed and owner, no unit is added or removed or changes its
\* place in the list, and a unit that has no hit points or no position when
\* the tick begins has the same position when it ends.
C37_TickFrame ==
    IsTick =>
        /\ DOMAIN units = DOMAIN Found
        /\ [i \in DOMAIN result.state.units |-> result.state.units[i].id]
               = [i \in DOMAIN call.found.units |-> call.found.units[i].id]
        /\ \A id \in DOMAIN units :
               /\ Identity(units[id]) = Identity(Found[id])
               /\ Found[id].hp = 0 \/ Found[id].position = None =>
                      units[id].position = Found[id].position

\* A tick in which one unit was hit and another moved while a dead unit
\* stood on the board and a living one was held back.
C37_Witness ==
    /\ Fought
    /\ \E id \in DOMAIN units : units[id].hp < Found[id].hp
    /\ \E id \in DOMAIN units : units[id].position # Found[id].position
    /\ \E id \in DOMAIN units : Found[id].hp = 0 /\ Found[id].position # None

C37_WitnessUndeployed ==
    /\ Fought
    /\ \E id \in DOMAIN units : units[id].hp < Found[id].hp
    /\ \E id \in DOMAIN units : Found[id].hp > 0 /\ Found[id].position = None

====
